---- MODULE Spec2Model ----
(***************************************************************************)
(* QueryCraft: the hybrid natural-language-to-SQL synthesizer.             *)
(*   core_ai_services/nl_to_sql.py          NLToSQLProcessor               *)
(*   core_ai_services/llm_sql_generator.py  LLMSQLGenerator                *)
(*   core_ai_services/sqlite_introspection.py SQLiteIntrospector           *)
(*   backend_api/main.py                    the /api/v1/query endpoint     *)
(*                                                                         *)
(* A Python str is a sequence of one-character strings, so that lower(),   *)
(* strip(), startswith(), `in`, count() and the regular expressions of the *)
(* source are computed character by character.                             *)
(***************************************************************************)
EXTENDS Integers, Sequences, FiniteSets, TLC

VARIABLES
    table_names,     \* NLToSQLProcessor.table_names: list(schema.keys())
    llm_generator,   \* NLToSQLProcessor.llm_generator is not None
    introspector,    \* NLToSQLProcessor.introspector is not None (None is the default)
    hash_order,      \* the interpreter's str hash seed, as the iteration order it gives a set
    pc,              \* position of the request in flight
    question,        \* QueryRequest.question
    llm_result,      \* what generate_sql_with_llm returned in this request
    result,          \* what NLToSQLProcessor.process_query returned
    llm_calls,       \* calls of generate_sql_with_llm in this request
    det_calls,       \* calls of _pattern_matching_query in this request
    validated,       \* the SQL strings validate_sql_syntax accepted in this request
    executed,        \* the SQL strings handed to execute_query in this request
    execution_result,\* what execute_query returned in this request
    response,        \* what the endpoint answered
    candidate,       \* argument of a direct validate_sql_syntax call
    verdict,         \* its return value
    first_sql,       \* sql_query of an earlier _pattern_matching_query call, same arguments
    argument,        \* argument of a direct call of another function
    returned,        \* its return value
    steps,           \* the steps of the request in flight, in the order they ran
    model_response,  \* what self.model.generate_content did in this request
    conn,            \* SQLiteIntrospector.conn: 0 for None, else a connection
    connections,     \* the connections sqlite3.connect returned, by number
    calls,           \* per request: its position in the handler and in the operation
    running          \* the request whose handler the event loop runs, 0 if none

cfgVars == << table_names, llm_generator, introspector, hash_order >>
reqVars ==
    << pc, question, llm_result, result, execution_result, llm_calls, det_calls, validated,
       executed, response, steps, model_response >>
storeVars == << conn, connections, calls, running >>
callVars == << candidate, verdict, first_sql, argument, returned >>
vars == << cfgVars, reqVars, callVars, storeVars >>

-----------------------------------------------------------------------------
(* Python's str operations *)

\* the character U+0060, which no TLA+ string literal can hold
Backtick == "U+0060"

\* Python None where a str is expected: no str equals it
None == << "None" >>

UpperChars ==
    << "A","B","C","D","E","F","G","H","I","J","K","L","M",
       "N","O","P","Q","R","S","T","U","V","W","X","Y","Z" >>
LowerChars ==
    << "a","b","c","d","e","f","g","h","i","j","k","l","m",
       "n","o","p","q","r","s","t","u","v","w","x","y","z" >>
Digits == { "0","1","2","3","4","5","6","7","8","9" }
UpperSet == { UpperChars[i] : i \in 1..Len(UpperChars) }
LowerSet == { LowerChars[i] : i \in 1..Len(LowerChars) }
ToLower == [ c \in UpperSet |-> LowerChars[CHOOSE i \in 1..Len(UpperChars) : UpperChars[i] = c] ]
ToUpper == [ c \in LowerSet |-> UpperChars[CHOOSE i \in 1..Len(LowerChars) : LowerChars[i] = c] ]

\* str.lower()
lower(s) == [ i \in 1..Len(s) |-> IF s[i] \in UpperSet THEN ToLower[s[i]] ELSE s[i] ]
\* str.upper()
upper(s) == [ i \in 1..Len(s) |-> IF s[i] \in LowerSet THEN ToUpper[s[i]] ELSE s[i] ]

\* the characters \s matches and strip() removes
IsSpace(c) == c \in { " ", "\t", "\n", "\r", "\f" }
\* the characters \w matches
IsWord(c) == c \in UpperSet \cup LowerSet \cup Digits \cup { "_" }

\* s[i:].startswith(p), i counted from 1
MatchAt(s, i, p) ==
    /\ i + Len(p) - 1 <= Len(s)
    /\ \A j \in 1..Len(p) : s[i + j - 1] = p[j]
\* s.startswith(p)
startswith(s, p) == MatchAt(s, 1, p)
\* p in s
In(p, s) == \E i \in 1..(Len(s) - Len(p) + 1) : MatchAt(s, i, p)
\* any(p in s for p in ps)
AnyIn(ps, s) == \E k \in 1..Len(ps) : In(ps[k], s)
\* s.count(c), c one character
count(s, c) == Cardinality({ i \in 1..Len(s) : s[i] = c })
\* s.strip()
strip(s) ==
    LET keep == { i \in 1..Len(s) : ~IsSpace(s[i]) }
    IN  IF keep = {} THEN << >>
        ELSE LET a == CHOOSE i \in keep : \A j \in keep : i <= j
                 b == CHOOSE i \in keep : \A j \in keep : j <= i
             IN  SubSeq(s, a, b)
\* bool(s) of a str or None
Truthy(s) == s # None /\ s # << >>

\* the elements of a list, as a set
Elems(xs) == { xs[i] : i \in 1..Len(xs) }
\* the concatenation of a list of str
RECURSIVE Concat(_)
Concat(xs) == IF xs = << >> THEN << >> ELSE Head(xs) \o Concat(Tail(xs))

\* the least element of a non-empty set of integers
Min(S) == CHOOSE x \in S : \A y \in S : x <= y

\* the first index after the longest run of characters matching \s (isWord FALSE) or
\* \w (isWord TRUE) that starts at index i
RunEnd(s, i, isWord) ==
    LET in_run(k) == IF isWord THEN IsWord(s[k]) ELSE IsSpace(s[k])
    IN  CHOOSE j \in i..(Len(s) + 1) :
            /\ j = Len(s) + 1 \/ ~in_run(j)
            /\ \A k \in i..(j - 1) : in_run(k)

\* the regular expression engine's scan: of the indices M where the pattern matches,
\* each match ending before index End[i], the starts of the non-overlapping matches
\* found from index `from` on, leftmost first
RECURSIVE Scan(_, _, _)
Scan(M, End, from) ==
    LET ahead == { i \in M : i >= from }
    IN  IF ahead = {} THEN << >>
        ELSE << Min(ahead) >> \o Scan(M, End, End[Min(ahead)])

\* re.findall(kw + r'\s+(\w+)', s): the groups of the non-overlapping matches
findall(kw, s) ==
    LET group_start(i) == RunEnd(s, i + Len(kw), FALSE)
        M == { i \in 1..Len(s) :
                 /\ MatchAt(s, i, kw)
                 /\ group_start(i) > i + Len(kw)
                 /\ RunEnd(s, group_start(i), TRUE) > group_start(i) }
        End == [ i \in M |-> RunEnd(s, group_start(i), TRUE) ]
        starts == Scan(M, End, 1)
    IN  [ k \in 1..Len(starts) |-> SubSeq(s, group_start(starts[k]), End[starts[k]] - 1) ]

-----------------------------------------------------------------------------
(* core_ai_services/llm_sql_generator.py: LLMSQLGenerator *)

\*   select
kw_select ==
    << "s","e","l","e","c","t" >>
\*   from
kw_from ==
    << "f","r","o","m" >>
\*   SELECT
KW_SELECT ==
    << "S","E","L","E","C","T" >>
\*   FROM
KW_FROM ==
    << "F","R","O","M" >>
\*   JOIN
KW_JOIN ==
    << "J","O","I","N" >>
\*   join
kw_join ==
    << "j","o","i","n" >>
\*   ```sql
fence_sql ==
    << Backtick,Backtick,Backtick,"s","q","l" >>
\*   ```
fence ==
    << Backtick,Backtick,Backtick >>
\*   sql:
prefix_sql ==
    << "s","q","l",":" >>
\*   answer:
prefix_answer ==
    << "a","n","s","w","e","r",":" >>
\* dangerous_keywords = ['drop', 'delete', 'truncate', 'alter', 'create', 'insert', 'update']
dangerous_keywords ==
    << << "d","r","o","p" >>,
       << "d","e","l","e","t","e" >>,
       << "t","r","u","n","c","a","t","e" >>,
       << "a","l","t","e","r" >>,
       << "c","r","e","a","t","e" >>,
       << "i","n","s","e","r","t" >>,
       << "u","p","d","a","t","e" >> >>
\* good_keywords = ['where', 'group by', 'order by', 'join', 'limit']
good_keywords ==
    << << "w","h","e","r","e" >>,
       << "g","r","o","u","p"," ","b","y" >>,
       << "o","r","d","e","r"," ","b","y" >>,
       << "j","o","i","n" >>,
       << "l","i","m","i","t" >> >>
\* the keys of the dict get_llm_context returns: 'database_type', 'tables'
llm_context_keys ==
    << << "d","a","t","a","b","a","s","e","_","t","y","p","e" >>,
       << "t","a","b","l","e","s" >> >>

\* validate_sql_syntax with the dangerous keywords looked up in sql, not in sql_lower
validate_sql_syntax_case_sensitive(sql) ==
    IF ~Truthy(sql) THEN FALSE
    ELSE LET sql_lower == strip(lower(sql))
         IN  IF ~startswith(sql_lower, kw_select) THEN FALSE
             ELSE IF ~In(kw_from, sql_lower) THEN FALSE
             ELSE IF count(sql, "(") # count(sql, ")") THEN FALSE
             ELSE IF AnyIn(dangerous_keywords, sql) THEN FALSE
             ELSE TRUE

\* validate_sql_syntax without the test of the parentheses
validate_sql_syntax_unbalanced(sql) ==
    IF ~Truthy(sql) THEN FALSE
    ELSE LET sql_lower == strip(lower(sql))
         IN  IF ~startswith(sql_lower, kw_select) THEN FALSE
             ELSE IF ~In(kw_from, sql_lower) THEN FALSE
             ELSE IF AnyIn(dangerous_keywords, sql_lower) THEN FALSE
             ELSE TRUE

\* LLMSQLGenerator.validate_sql_syntax(sql) -> bool; no operation on a str raises here,
\* so the except arm (return False) is never taken
validate_sql_syntax(sql) ==
    IF ~Truthy(sql) THEN FALSE
    ELSE LET sql_lower == strip(lower(sql))
         IN  IF ~startswith(sql_lower, kw_select) THEN FALSE
             ELSE IF ~In(kw_from, sql_lower) THEN FALSE
             ELSE IF count(sql, "(") # count(sql, ")") THEN FALSE
             ELSE IF AnyIn(dangerous_keywords, sql_lower) THEN FALSE
             ELSE TRUE

\* LLMSQLGenerator.extract_tables_from_sql(sql): list(set(from_matches + join_matches)),
\* given by its elements (the list's order is the set's iteration order)
extract_tables_from_sql(sql) ==
    LET sql_lower == lower(sql)
    IN  Elems(findall(kw_from, sql_lower)) \cup Elems(findall(kw_join, sql_lower))

\* max(0, min(100, score))
clamp(score) ==
    LET m == IF score < 100 THEN score ELSE 100
    IN  IF m > 0 THEN m ELSE 0

\* LLMSQLGenerator.calculate_confidence_score(sql, schema_info): schema_info is the
\* dict of get_llm_context, whose keys are read as the table names
calculate_confidence_score(sql, schema_info_keys) ==
    LET sql_lower == lower(sql)
        base == 85 - (IF ~startswith(sql_lower, kw_select) THEN 20 ELSE 0)
        tables_found ==
            Cardinality({ k \in 1..Len(schema_info_keys) : In(lower(schema_info_keys[k]), sql_lower) })
        t == IF tables_found = 0 THEN 0 - 30
             ELSE IF tables_found = 1 THEN 5
             ELSE 10
        keywords_found ==
            Cardinality({ k \in 1..Len(good_keywords) : In(good_keywords[k], sql_lower) })
    IN  clamp(base + t + keywords_found * 2)

\* s without the matches that start at the indices of `starts` and end before End[i]
RECURSIVE Without(_, _, _, _)
Without(s, starts, End, from) ==
    IF starts = << >> THEN SubSeq(s, from, Len(s))
    ELSE SubSeq(s, from, starts[1] - 1) \o Without(s, Tail(starts), End, End[starts[1]])

\* re.sub(pat + r'\n?', '', s); ci: flags=re.IGNORECASE (pat is in lower case)
RemoveAll(pat, s, ci) ==
    LET t == IF ci THEN lower(s) ELSE s
        M == { i \in 1..Len(s) : MatchAt(t, i, pat) }
        End == [ i \in M |->
                   IF i + Len(pat) <= Len(s) /\ s[i + Len(pat)] = "\n"
                   THEN i + Len(pat) + 1 ELSE i + Len(pat) ]
    IN  Without(s, Scan(M, End, 1), End, 1)

\* re.sub(r'^(SQL|Answer):\s*', '', s, flags=re.IGNORECASE)
RemovePrefix(s) ==
    LET l == lower(s)
        n == IF startswith(l, prefix_sql) THEN Len(prefix_sql)
             ELSE IF startswith(l, prefix_answer) THEN Len(prefix_answer)
             ELSE 0
    IN  IF n = 0 THEN s ELSE SubSeq(s, RunEnd(s, n + 1, FALSE), Len(s))

\* the elements of a set of integers in increasing order
Sorted(S) == [ k \in 1..Cardinality(S) |-> CHOOSE i \in S : Cardinality({ j \in S : j <= i }) = k ]

\* s.split('\n')
split_lines(s) ==
    LET cuts == Sorted({ 0, Len(s) + 1 } \cup { i \in 1..Len(s) : s[i] = "\n" })
    IN  [ k \in 1..(Len(cuts) - 1) |-> SubSeq(s, cuts[k] + 1, cuts[k + 1] - 1) ]

\* [line.strip() for line in s.split('\n') if line.strip()]
StrippedLines(s) ==
    LET all == split_lines(s)
    IN  SelectSeq([ i \in 1..Len(all) |-> strip(all[i]) ], LAMBDA l : l # << >>)

\* LLMSQLGenerator._clean_sql_response(sql)
_clean_sql_response(sql) ==
    LET s1 == RemoveAll(fence_sql, sql, TRUE)
        s2 == RemoveAll(fence, s1, FALSE)
        s3 == strip(RemovePrefix(s2))
        lines == StrippedLines(s3)
        selects == { i \in 1..Len(lines) : startswith(upper(lines[i]), KW_SELECT) }
    IN  IF Len(lines) > 1
        THEN IF selects # {}
             THEN lines[Min(selects)]
             ELSE lines[1]
        ELSE s3

-----------------------------------------------------------------------------
(* core_ai_services/nl_to_sql.py: NLToSQLProcessor *)

\* nl_to_sql.py line 143
\*   SELECT c.customer_name, SUM(o.total_amount) as total_spent \n
\*                                      FROM customers c \n                                   
\*   JOIN orders o ON c.customer_id = o.customer_id \n                                   GROUP 
\*   BY c.customer_id, c.customer_name \n                                   ORDER BY 
\*   total_spent DESC \n                                   LIMIT 10
SQL_top_customers_spend ==
    << "S","E","L","E","C","T"," ","c",".","c","u","s","t","o","m","e","r","_","n","a","m","e",",",
       " ","S","U","M","(","o",".","t","o","t","a","l","_","a","m","o","u","n","t",")"," ","a","s",
       " ","t","o","t","a","l","_","s","p","e","n","t"," ","\n"," "," "," "," "," "," "," "," ",
       " "," "," "," "," "," "," "," "," "," "," "," "," "," "," "," "," "," "," "," "," "," "," ",
       " "," "," "," ","F","R","O","M"," ","c","u","s","t","o","m","e","r","s"," ","c"," ","\n",
       " "," "," "," "," "," "," "," "," "," "," "," "," "," "," "," "," "," "," "," "," "," "," ",
       " "," "," "," "," "," "," "," "," "," "," "," ","J","O","I","N"," ","o","r","d","e","r","s",
       " ","o"," ","O","N"," ","c",".","c","u","s","t","o","m","e","r","_","i","d"," ","="," ","o",
       ".","c","u","s","t","o","m","e","r","_","i","d"," ","\n"," "," "," "," "," "," "," "," ",
       " "," "," "," "," "," "," "," "," "," "," "," "," "," "," "," "," "," "," "," "," "," "," ",
       " "," "," "," ","G","R","O","U","P"," ","B","Y"," ","c",".","c","u","s","t","o","m","e","r",
       "_","i","d",","," ","c",".","c","u","s","t","o","m","e","r","_","n","a","m","e"," ","\n",
       " "," "," "," "," "," "," "," "," "," "," "," "," "," "," "," "," "," "," "," "," "," "," ",
       " "," "," "," "," "," "," "," "," "," "," "," ","O","R","D","E","R"," ","B","Y"," ","t","o",
       "t","a","l","_","s","p","e","n","t"," ","D","E","S","C"," ","\n"," "," "," "," "," "," ",
       " "," "," "," "," "," "," "," "," "," "," "," "," "," "," "," "," "," "," "," "," "," "," ",
       " "," "," "," "," "," ","L","I","M","I","T"," ","1","0" >>
EXPL_top_customers_spend ==
    "This query finds the top 10 customers by total spending amount by joining customers and orders tables, grouping by customer, and summing their order totals."
\* nl_to_sql.py line 153
\*   SELECT customer_name, email FROM customers ORDER BY customer_id DESC LIMIT 10
SQL_top_customers ==
    << "S","E","L","E","C","T"," ","c","u","s","t","o","m","e","r","_","n","a","m","e",","," ","e",
       "m","a","i","l"," ","F","R","O","M"," ","c","u","s","t","o","m","e","r","s"," ","O","R","D",
       "E","R"," ","B","Y"," ","c","u","s","t","o","m","e","r","_","i","d"," ","D","E","S","C"," ",
       "L","I","M","I","T"," ","1","0" >>
EXPL_top_customers ==
    "This query shows the top 10 most recent customers."
\* nl_to_sql.py line 160
\*   SELECT p.product_name, SUM(oi.quantity) as total_sold \n
\*                                      FROM products p \n                                   
\*   JOIN order_items oi ON p.product_id = oi.product_id \n                                   
\*   GROUP BY p.product_id, p.product_name \n                                   ORDER BY 
\*   total_sold DESC \n                                   LIMIT 10
SQL_top_products_selling ==
    << "S","E","L","E","C","T"," ","p",".","p","r","o","d","u","c","t","_","n","a","m","e",","," ",
       "S","U","M","(","o","i",".","q","u","a","n","t","i","t","y",")"," ","a","s"," ","t","o","t",
       "a","l","_","s","o","l","d"," ","\n"," "," "," "," "," "," "," "," "," "," "," "," "," ",
       " "," "," "," "," "," "," "," "," "," "," "," "," "," "," "," "," "," "," "," "," "," ","F",
       "R","O","M"," ","p","r","o","d","u","c","t","s"," ","p"," ","\n"," "," "," "," "," "," ",
       " "," "," "," "," "," "," "," "," "," "," "," "," "," "," "," "," "," "," "," "," "," "," ",
       " "," "," "," "," "," ","J","O","I","N"," ","o","r","d","e","r","_","i","t","e","m","s"," ",
       "o","i"," ","O","N"," ","p",".","p","r","o","d","u","c","t","_","i","d"," ","="," ","o","i",
       ".","p","r","o","d","u","c","t","_","i","d"," ","\n"," "," "," "," "," "," "," "," "," ",
       " "," "," "," "," "," "," "," "," "," "," "," "," "," "," "," "," "," "," "," "," "," "," ",
       " "," "," ","G","R","O","U","P"," ","B","Y"," ","p",".","p","r","o","d","u","c","t","_","i",
       "d",","," ","p",".","p","r","o","d","u","c","t","_","n","a","m","e"," ","\n"," "," "," ",
       " "," "," "," "," "," "," "," "," "," "," "," "," "," "," "," "," "," "," "," "," "," "," ",
       " "," "," "," "," "," "," "," "," ","O","R","D","E","R"," ","B","Y"," ","t","o","t","a","l",
       "_","s","o","l","d"," ","D","E","S","C"," ","\n"," "," "," "," "," "," "," "," "," "," ",
       " "," "," "," "," "," "," "," "," "," "," "," "," "," "," "," "," "," "," "," "," "," "," ",
       " "," ","L","I","M","I","T"," ","1","0" >>
EXPL_top_products_selling ==
    "This query finds the top 10 best-selling products by total quantity sold."
\* nl_to_sql.py line 170
\*   SELECT product_name, price FROM products ORDER BY price DESC LIMIT 10
SQL_top_products_price ==
    << "S","E","L","E","C","T"," ","p","r","o","d","u","c","t","_","n","a","m","e",","," ","p","r",
       "i","c","e"," ","F","R","O","M"," ","p","r","o","d","u","c","t","s"," ","O","R","D","E","R",
       " ","B","Y"," ","p","r","i","c","e"," ","D","E","S","C"," ","L","I","M","I","T"," ","1","0" >>
EXPL_top_products_price ==
    "This query shows the top 10 most expensive products."
\* nl_to_sql.py line 175
\*   SELECT * FROM customers LIMIT 10
SQL_top_default ==
    << "S","E","L","E","C","T"," ","*"," ","F","R","O","M"," ","c","u","s","t","o","m","e","r","s",
       " ","L","I","M","I","T"," ","1","0" >>
EXPL_top_default ==
    "Showing top 10 records from customers table."
\* nl_to_sql.py line 183
\*   SELECT COUNT(*) as customer_count FROM customers
SQL_count_customers ==
    << "S","E","L","E","C","T"," ","C","O","U","N","T","(","*",")"," ","a","s"," ","c","u","s","t",
       "o","m","e","r","_","c","o","u","n","t"," ","F","R","O","M"," ","c","u","s","t","o","m","e",
       "r","s" >>
EXPL_count_customers ==
    "This query counts the total number of customers."
\* nl_to_sql.py line 188
\*   SELECT COUNT(*) as order_count FROM orders
SQL_count_orders ==
    << "S","E","L","E","C","T"," ","C","O","U","N","T","(","*",")"," ","a","s"," ","o","r","d","e",
       "r","_","c","o","u","n","t"," ","F","R","O","M"," ","o","r","d","e","r","s" >>
EXPL_count_orders ==
    "This query counts the total number of orders."
\* nl_to_sql.py line 193
\*   SELECT COUNT(*) as product_count FROM products
SQL_count_products ==
    << "S","E","L","E","C","T"," ","C","O","U","N","T","(","*",")"," ","a","s"," ","p","r","o","d",
       "u","c","t","_","c","o","u","n","t"," ","F","R","O","M"," ","p","r","o","d","u","c","t","s" >>
EXPL_count_products ==
    "This query counts the total number of products."
\* nl_to_sql.py line 198
\*   SELECT COUNT(*) as total_records FROM customers
SQL_count_default ==
    << "S","E","L","E","C","T"," ","C","O","U","N","T","(","*",")"," ","a","s"," ","t","o","t","a",
       "l","_","r","e","c","o","r","d","s"," ","F","R","O","M"," ","c","u","s","t","o","m","e","r",
       "s" >>
EXPL_count_default ==
    "This query counts total records in the main table."
\* nl_to_sql.py line 206
\*   SELECT AVG(total_amount) as average_order_value FROM orders
SQL_avg_order_value ==
    << "S","E","L","E","C","T"," ","A","V","G","(","t","o","t","a","l","_","a","m","o","u","n","t",
       ")"," ","a","s"," ","a","v","e","r","a","g","e","_","o","r","d","e","r","_","v","a","l","u",
       "e"," ","F","R","O","M"," ","o","r","d","e","r","s" >>
EXPL_avg_order_value ==
    "This query calculates the average order value."
\* nl_to_sql.py line 211
\*   SELECT AVG(price) as average_price FROM products
SQL_avg_price ==
    << "S","E","L","E","C","T"," ","A","V","G","(","p","r","i","c","e",")"," ","a","s"," ","a","v",
       "e","r","a","g","e","_","p","r","i","c","e"," ","F","R","O","M"," ","p","r","o","d","u","c",
       "t","s" >>
EXPL_avg_price ==
    "This query calculates the average product price."
\* nl_to_sql.py line 216
\*   SELECT AVG(total_amount) as average_amount FROM orders
SQL_avg_default ==
    << "S","E","L","E","C","T"," ","A","V","G","(","t","o","t","a","l","_","a","m","o","u","n","t",
       ")"," ","a","s"," ","a","v","e","r","a","g","e","_","a","m","o","u","n","t"," ","F","R","O",
       "M"," ","o","r","d","e","r","s" >>
EXPL_avg_default ==
    "This query calculates the average amount from orders."
\* nl_to_sql.py line 224
\*   SELECT SUM(total_amount) as total_revenue FROM orders WHERE status = 'Completed'
SQL_sum_revenue ==
    << "S","E","L","E","C","T"," ","S","U","M","(","t","o","t","a","l","_","a","m","o","u","n","t",
       ")"," ","a","s"," ","t","o","t","a","l","_","r","e","v","e","n","u","e"," ","F","R","O","M",
       " ","o","r","d","e","r","s"," ","W","H","E","R","E"," ","s","t","a","t","u","s"," ","="," ",
       "'","C","o","m","p","l","e","t","e","d","'" >>
EXPL_sum_revenue ==
    "This query calculates total revenue from completed orders."
\* nl_to_sql.py line 229
\*   SELECT SUM(total_amount) as total_amount FROM orders
SQL_sum_default ==
    << "S","E","L","E","C","T"," ","S","U","M","(","t","o","t","a","l","_","a","m","o","u","n","t",
       ")"," ","a","s"," ","t","o","t","a","l","_","a","m","o","u","n","t"," ","F","R","O","M"," ",
       "o","r","d","e","r","s" >>
EXPL_sum_default ==
    "This query calculates the total amount from all orders."
\* nl_to_sql.py line 237
\*   SELECT customer_name, email, city, country FROM customers
SQL_list_customers ==
    << "S","E","L","E","C","T"," ","c","u","s","t","o","m","e","r","_","n","a","m","e",","," ","e",
       "m","a","i","l",","," ","c","i","t","y",","," ","c","o","u","n","t","r","y"," ","F","R","O",
       "M"," ","c","u","s","t","o","m","e","r","s" >>
EXPL_list_customers ==
    "This query lists all customers with their basic information."
\* nl_to_sql.py line 242
\*   SELECT product_name, category, price, stock_quantity FROM products
SQL_list_products ==
    << "S","E","L","E","C","T"," ","p","r","o","d","u","c","t","_","n","a","m","e",","," ","c","a",
       "t","e","g","o","r","y",","," ","p","r","i","c","e",","," ","s","t","o","c","k","_","q","u",
       "a","n","t","i","t","y"," ","F","R","O","M"," ","p","r","o","d","u","c","t","s" >>
EXPL_list_products ==
    "This query lists all products with their details."
\* nl_to_sql.py line 247
\*   SELECT o.order_id, c.customer_name, o.order_date, o.total_amount, o.status FROM orders o 
\*   JOIN customers c ON o.customer_id = c.customer_id
SQL_list_orders ==
    << "S","E","L","E","C","T"," ","o",".","o","r","d","e","r","_","i","d",","," ","c",".","c","u",
       "s","t","o","m","e","r","_","n","a","m","e",","," ","o",".","o","r","d","e","r","_","d","a",
       "t","e",","," ","o",".","t","o","t","a","l","_","a","m","o","u","n","t",","," ","o",".","s",
       "t","a","t","u","s"," ","F","R","O","M"," ","o","r","d","e","r","s"," ","o"," ","J","O","I",
       "N"," ","c","u","s","t","o","m","e","r","s"," ","c"," ","O","N"," ","o",".","c","u","s","t",
       "o","m","e","r","_","i","d"," ","="," ","c",".","c","u","s","t","o","m","e","r","_","i","d" >>
EXPL_list_orders ==
    "This query lists all orders with customer information."
\* nl_to_sql.py line 252
\*   SELECT * FROM customers LIMIT 50
SQL_list_default ==
    << "S","E","L","E","C","T"," ","*"," ","F","R","O","M"," ","c","u","s","t","o","m","e","r","s",
       " ","L","I","M","I","T"," ","5","0" >>
EXPL_list_default ==
    "This query shows a list of records from the main table."
\* nl_to_sql.py line 269
\*   SELECT customer_name, email FROM customers LIMIT 10
SQL_generic_default ==
    << "S","E","L","E","C","T"," ","c","u","s","t","o","m","e","r","_","n","a","m","e",","," ","e",
       "m","a","i","l"," ","F","R","O","M"," ","c","u","s","t","o","m","e","r","s"," ","L","I","M",
       "I","T"," ","1","0" >>
EXPL_generic_default ==
    "This is a default query showing customer information. Please try rephrasing your question for better results."
\* nl_to_sql.py line 92: ['top', 'highest', 'most', 'best']
top_words ==
    << << "t","o","p" >>,
       << "h","i","g","h","e","s","t" >>,
       << "m","o","s","t" >>,
       << "b","e","s","t" >> >>
\* nl_to_sql.py line 94: ['count', 'how many']
count_words ==
    << << "c","o","u","n","t" >>,
       << "h","o","w"," ","m","a","n","y" >> >>
\* nl_to_sql.py line 96: ['average', 'avg', 'mean']
average_words ==
    << << "a","v","e","r","a","g","e" >>,
       << "a","v","g" >>,
       << "m","e","a","n" >> >>
\* nl_to_sql.py line 98: ['total', 'sum']
sum_words ==
    << << "t","o","t","a","l" >>,
       << "s","u","m" >> >>
\* nl_to_sql.py line 100: ['list', 'show', 'all', 'get']
list_words ==
    << << "l","i","s","t" >>,
       << "s","h","o","w" >>,
       << "a","l","l" >>,
       << "g","e","t" >> >>
\* nl_to_sql.py line 124: ['customer', 'client', 'user']
customer_words ==
    << << "c","u","s","t","o","m","e","r" >>,
       << "c","l","i","e","n","t" >>,
       << "u","s","e","r" >> >>
\* nl_to_sql.py line 128: ['product', 'item']
product_words ==
    << << "p","r","o","d","u","c","t" >>,
       << "i","t","e","m" >> >>
\* nl_to_sql.py line 132: ['order', 'purchase', 'sale']
order_words ==
    << << "o","r","d","e","r" >>,
       << "p","u","r","c","h","a","s","e" >>,
       << "s","a","l","e" >> >>
\* nl_to_sql.py line 276: ['count', 'how many', 'total', 'sum', 'average', 'avg']
high_confidence_patterns ==
    << << "c","o","u","n","t" >>,
       << "h","o","w"," ","m","a","n","y" >>,
       << "t","o","t","a","l" >>,
       << "s","u","m" >>,
       << "a","v","e","r","a","g","e" >>,
       << "a","v","g" >> >>
\* nl_to_sql.py line 277: ['top', 'list', 'show', 'all']
medium_confidence_patterns ==
    << << "t","o","p" >>,
       << "l","i","s","t" >>,
       << "s","h","o","w" >>,
       << "a","l","l" >> >>
w_customer ==
    << "c","u","s","t","o","m","e","r" >>
w_product ==
    << "p","r","o","d","u","c","t" >>
w_order ==
    << "o","r","d","e","r" >>
w_value ==
    << "v","a","l","u","e" >>
w_amount ==
    << "a","m","o","u","n","t" >>
w_spend ==
    << "s","p","e","n","d" >>
w_selling ==
    << "s","e","l","l","i","n","g" >>
w_popular ==
    << "p","o","p","u","l","a","r" >>
w_expensive ==
    << "e","x","p","e","n","s","i","v","e" >>
w_price ==
    << "p","r","i","c","e" >>
w_revenue ==
    << "r","e","v","e","n","u","e" >>
w_sales ==
    << "s","a","l","e","s" >>
w_customers ==
    << "c","u","s","t","o","m","e","r","s" >>
w_products ==
    << "p","r","o","d","u","c","t","s" >>
w_orders ==
    << "o","r","d","e","r","s" >>
\* nl_to_sql.py line 263: f"SELECT * FROM {main_table} LIMIT 10"
\*   SELECT * FROM 
generic_sql_head ==
    << "S","E","L","E","C","T"," ","*"," ","F","R","O","M"," " >>
\*    LIMIT 10
generic_sql_tail ==
    << " ","L","I","M","I","T"," ","1","0" >>

\* nl_to_sql.py line 264: f"This query shows data from the {main_table} table which seems relevant to your question."
EXPL_generic_table ==
    "This query shows data from the {main_table} table which seems relevant to your question."

\* a raised Python exception, as the value of the call that raised it
Raise(kind) == [ raised |-> kind ]
Raised(r) == "raised" \in DOMAIN r

\* an f-string with one substituted value: its literal text and the value
Fmt(text, arg) == [ text |-> text, arg |-> arg ]
\* a literal str
Lit(text) == Fmt(text, << >>)

\* a handler's return value
Template(sql, explanation) == [ sql_query |-> sql, explanation |-> explanation ]

\* list(set(xs)): the elements of xs in the iteration order of this process's sets
ListOfSet(S) == SelectSeq(hash_order, LAMBDA t : t \in S)

\* s[:-1]
DropLast(s) == SubSeq(s, 1, Len(s) - 1)

\* NLToSQLProcessor._identify_relevant_tables(question_lower)
_identify_relevant_tables(question_lower) ==
    LET mentioned ==
            { t \in Elems(table_names) :
                In(lower(t), question_lower) \/ In(DropLast(lower(t)), question_lower) }
        entity(ws, table) ==
            IF AnyIn(ws, question_lower) /\ table \in Elems(table_names) THEN { table } ELSE {}
    IN  ListOfSet(mentioned \cup entity(customer_words, w_customers)
                            \cup entity(product_words, w_products)
                            \cup entity(order_words, w_orders))

\* _handle_top_queries without the test for value, amount or spend
_handle_top_queries_recent(question_lower) ==
    IF In(w_customer, question_lower)
    THEN Template(SQL_top_customers, Lit(EXPL_top_customers))
    ELSE IF In(w_product, question_lower)
              /\ (In(w_selling, question_lower) \/ In(w_popular, question_lower))
         THEN Template(SQL_top_products_selling, Lit(EXPL_top_products_selling))
    ELSE IF In(w_product, question_lower)
              /\ (In(w_expensive, question_lower) \/ In(w_price, question_lower))
         THEN Template(SQL_top_products_price, Lit(EXPL_top_products_price))
    ELSE Template(SQL_top_default, Lit(EXPL_top_default))

\* NLToSQLProcessor._handle_top_queries(question, question_lower)
_handle_top_queries(question_lower) ==
    IF In(w_customer, question_lower)
    THEN IF In(w_value, question_lower) \/ In(w_amount, question_lower) \/ In(w_spend, question_lower)
         THEN Template(SQL_top_customers_spend, Lit(EXPL_top_customers_spend))
         ELSE Template(SQL_top_customers, Lit(EXPL_top_customers))
    ELSE IF In(w_product, question_lower)
              /\ (In(w_selling, question_lower) \/ In(w_popular, question_lower))
         THEN Template(SQL_top_products_selling, Lit(EXPL_top_products_selling))
    ELSE IF In(w_product, question_lower)
              /\ (In(w_expensive, question_lower) \/ In(w_price, question_lower))
         THEN Template(SQL_top_products_price, Lit(EXPL_top_products_price))
    ELSE Template(SQL_top_default, Lit(EXPL_top_default))

\* _handle_count_queries that lists the customers where it should count them
_handle_count_queries_listing(question_lower) ==
    IF In(w_customer, question_lower)
    THEN Template(SQL_list_customers, Lit(EXPL_list_customers))
    ELSE IF In(w_order, question_lower)
    THEN Template(SQL_count_orders, Lit(EXPL_count_orders))
    ELSE IF In(w_product, question_lower)
    THEN Template(SQL_count_products, Lit(EXPL_count_products))
    ELSE Template(SQL_count_default, Lit(EXPL_count_default))

\* NLToSQLProcessor._handle_count_queries(question, question_lower)
_handle_count_queries(question_lower) ==
    IF In(w_customer, question_lower)
    THEN Template(SQL_count_customers, Lit(EXPL_count_customers))
    ELSE IF In(w_order, question_lower)
    THEN Template(SQL_count_orders, Lit(EXPL_count_orders))
    ELSE IF In(w_product, question_lower)
    THEN Template(SQL_count_products, Lit(EXPL_count_products))
    ELSE Template(SQL_count_default, Lit(EXPL_count_default))

\* NLToSQLProcessor._handle_average_queries(question, question_lower)
_handle_average_queries(question_lower) ==
    IF In(w_order, question_lower)
       /\ (In(w_value, question_lower) \/ In(w_amount, question_lower))
    THEN Template(SQL_avg_order_value, Lit(EXPL_avg_order_value))
    ELSE IF In(w_price, question_lower)
    THEN Template(SQL_avg_price, Lit(EXPL_avg_price))
    ELSE Template(SQL_avg_default, Lit(EXPL_avg_default))

\* NLToSQLProcessor._handle_sum_queries(question, question_lower)
_handle_sum_queries(question_lower) ==
    IF In(w_revenue, question_lower) \/ In(w_sales, question_lower)
    THEN Template(SQL_sum_revenue, Lit(EXPL_sum_revenue))
    ELSE Template(SQL_sum_default, Lit(EXPL_sum_default))

\* NLToSQLProcessor._handle_list_queries(question, question_lower)
_handle_list_queries(question_lower) ==
    IF In(w_customer, question_lower)
    THEN Template(SQL_list_customers, Lit(EXPL_list_customers))
    ELSE IF In(w_product, question_lower)
    THEN Template(SQL_list_products, Lit(EXPL_list_products))
    ELSE IF In(w_order, question_lower)
    THEN Template(SQL_list_orders, Lit(EXPL_list_orders))
    ELSE Template(SQL_list_default, Lit(EXPL_list_default))

\* _handle_generic_query without the `if relevant_tables:` guard: relevant_tables[0]
\* raises IndexError on an empty list
_handle_generic_query_unguarded(question_lower) ==
    LET relevant_tables == _identify_relevant_tables(question_lower)
    IN  IF relevant_tables = << >> THEN Raise("IndexError")
        ELSE Template(generic_sql_head \o relevant_tables[1] \o generic_sql_tail,
                      Fmt(EXPL_generic_table, relevant_tables[1]))

\* NLToSQLProcessor._handle_generic_query(question, question_lower)
_handle_generic_query(question_lower) ==
    LET relevant_tables == _identify_relevant_tables(question_lower)
    IN  IF relevant_tables # << >>
        THEN LET main_table == relevant_tables[1]
             IN  Template(generic_sql_head \o main_table \o generic_sql_tail,
                          Fmt(EXPL_generic_table, main_table))
        ELSE Template(SQL_generic_default, Lit(EXPL_generic_default))

\* NLToSQLProcessor._calculate_pattern_confidence(question_lower)
_calculate_pattern_confidence(question_lower) ==
    IF AnyIn(high_confidence_patterns, question_lower) THEN 75
    ELSE IF AnyIn(medium_confidence_patterns, question_lower) THEN 65
    ELSE 50

\* NLToSQLProcessor._extract_tables_from_sql(sql): list(set(t.lower() for t in tables)),
\* given by its elements (the list's order is the set's iteration order)
_extract_tables_from_sql(sql) ==
    LET sql_upper == upper(sql)
        tables == findall(KW_FROM, sql_upper) \o findall(KW_JOIN, sql_upper)
    IN  { lower(tables[i]) : i \in 1..Len(tables) }

\* Dispatch with the count category tried before the superlative category
Dispatch_count_first(question_lower) ==
    IF AnyIn(count_words, question_lower) THEN _handle_count_queries(question_lower)
    ELSE IF AnyIn(top_words, question_lower) THEN _handle_top_queries(question_lower)
    ELSE IF AnyIn(average_words, question_lower) THEN _handle_average_queries(question_lower)
    ELSE IF AnyIn(sum_words, question_lower) THEN _handle_sum_queries(question_lower)
    ELSE IF AnyIn(list_words, question_lower) THEN _handle_list_queries(question_lower)
    ELSE _handle_generic_query(question_lower)

\* the dispatch of _pattern_matching_query: the handler's return value
Dispatch(question_lower) ==
    IF AnyIn(top_words, question_lower) THEN _handle_top_queries(question_lower)
    ELSE IF AnyIn(count_words, question_lower) THEN _handle_count_queries(question_lower)
    ELSE IF AnyIn(average_words, question_lower) THEN _handle_average_queries(question_lower)
    ELSE IF AnyIn(sum_words, question_lower) THEN _handle_sum_queries(question_lower)
    ELSE IF AnyIn(list_words, question_lower) THEN _handle_list_queries(question_lower)
    ELSE _handle_generic_query(question_lower)

\* NLToSQLProcessor._pattern_matching_query(question): the returned dict, or the
\* exception a handler raised (tokens_used, always 0 here, is left out)
_pattern_matching_query(q) ==
    LET question_lower == lower(q)
        r == Dispatch(question_lower)
    IN  IF Raised(r) THEN r
        ELSE [ sql_query |-> r.sql_query,
               explanation |-> r.explanation,
               generation_method |-> "fallback",
               confidence |-> _calculate_pattern_confidence(question_lower),
               tables_used |-> _extract_tables_from_sql(r.sql_query) ]

-----------------------------------------------------------------------------
(* backend_api/main.py *)

w_group_by ==
    << "g","r","o","u","p"," ","b","y" >>
w_having ==
    << "h","a","v","i","n","g" >>
w_subquery ==
    << "s","u","b","q","u","e","r","y" >>
w_paren_select ==
    << "(","s","e","l","e","c","t" >>
w_union ==
    << "u","n","i","o","n" >>
w_intersect ==
    << "i","n","t","e","r","s","e","c","t" >>
w_case_when ==
    << "c","a","s","e"," ","w","h","e","n" >>
w_window ==
    << "w","i","n","d","o","w" >>
w_over ==
    << "o","v","e","r","(" >>

\* determine_query_complexity with Advanced above 6 only
determine_query_complexity_above(sql_query) ==
    LET sql_lower == lower(sql_query)
        complexity_score ==
              (IF In(kw_join, sql_lower) THEN 2 ELSE 0)
            + (IF In(w_group_by, sql_lower) THEN 1 ELSE 0)
            + (IF In(w_having, sql_lower) THEN 2 ELSE 0)
            + (IF In(w_subquery, sql_lower) \/ In(w_paren_select, sql_lower) THEN 3 ELSE 0)
            + (IF In(w_union, sql_lower) \/ In(w_intersect, sql_lower) THEN 2 ELSE 0)
            + (IF In(w_case_when, sql_lower) THEN 1 ELSE 0)
            + (IF In(w_window, sql_lower) \/ In(w_over, sql_lower) THEN 3 ELSE 0)
    IN  IF complexity_score > 6 THEN "Advanced"
        ELSE IF complexity_score >= 3 THEN "Medium"
        ELSE "Easy"

\* determine_query_complexity(sql_query)
determine_query_complexity(sql_query) ==
    LET sql_lower == lower(sql_query)
        complexity_score ==
              (IF In(kw_join, sql_lower) THEN 2 ELSE 0)
            + (IF In(w_group_by, sql_lower) THEN 1 ELSE 0)
            + (IF In(w_having, sql_lower) THEN 2 ELSE 0)
            + (IF In(w_subquery, sql_lower) \/ In(w_paren_select, sql_lower) THEN 3 ELSE 0)
            + (IF In(w_union, sql_lower) \/ In(w_intersect, sql_lower) THEN 2 ELSE 0)
            + (IF In(w_case_when, sql_lower) THEN 1 ELSE 0)
            + (IF In(w_window, sql_lower) \/ In(w_over, sql_lower) THEN 3 ELSE 0)
    IN  IF complexity_score >= 6 THEN "Advanced"
        ELSE IF complexity_score >= 3 THEN "Medium"
        ELSE "Easy"

\* enhanced_confidence without min and max
enhanced_confidence_unbounded(base_confidence) == base_confidence + 35

\* min(95, max(85, base_confidence + 35))
enhanced_confidence(base_confidence) ==
    LET m == IF base_confidence + 35 > 85 THEN base_confidence + 35 ELSE 85
    IN  IF m < 95 THEN m ELSE 95

-----------------------------------------------------------------------------
(* The inputs *)

\* tables a catalog holds at most
MaxTables == 2
\* phrases a question of a direct _pattern_matching_query call is made of at most
MaxPhrases == 2
\* fragments a candidate of a direct validate_sql_syntax call is made of at most
MaxFragments == 3
\* rows a query returns at most
MaxRows == 1
\* connections sqlite3.connect returns at most
MaxConnections == 3

\* the sequences over S of length at most n
SeqsUpTo(S, n) == UNION { [ 1..k -> S ] : k \in 0..n }
\* the sequences of SeqsUpTo(S, n) without a repeated element
DistinctSeqsUpTo(S, n) ==
    { s \in SeqsUpTo(S, n) : \A i, j \in 1..Len(s) : s[i] = s[j] => i = j }

\*   updates
w_updates ==
    << "u","p","d","a","t","e","s" >>
\* the table names catalogs are drawn from
TablePool == { w_customers, w_orders, w_updates }
\* schema.keys(): the catalogs, the empty one included
Catalogs == DistinctSeqsUpTo(TablePool, MaxTables)
\* the iteration orders a process's hash seed can give the set of a catalog's tables
HashOrders(catalog) ==
    { p \in [ 1..Len(catalog) -> Elems(catalog) ] : \A i, j \in 1..Len(catalog) : p[i] = p[j] => i = j }

\*   top
P_top ==
    << "t","o","p" >>
\*   How many
P_how_many ==
    << "H","o","w"," ","m","a","n","y" >>
\*   average
P_average ==
    << "a","v","e","r","a","g","e" >>
\*   total
P_total ==
    << "t","o","t","a","l" >>
\*   Show
P_show ==
    << "S","h","o","w" >>
\*   customers
P_customers ==
    << "c","u","s","t","o","m","e","r","s" >>
\*   products
P_products ==
    << "p","r","o","d","u","c","t","s" >>
\*   customers by spending
P_customers_spending ==
    << "c","u","s","t","o","m","e","r","s"," ","b","y"," ","s","p","e","n","d","i","n","g" >>
\*   best selling products
P_best_selling ==
    << "b","e","s","t"," ","s","e","l","l","i","n","g"," ","p","r","o","d","u","c","t","s" >>
\*   product price
P_product_price ==
    << "p","r","o","d","u","c","t"," ","p","r","i","c","e" >>
\*   order value
P_order_value ==
    << "o","r","d","e","r"," ","v","a","l","u","e" >>
\*   sales revenue
P_sales ==
    << "s","a","l","e","s"," ","r","e","v","e","n","u","e" >>
\*   hello
P_hello ==
    << "h","e","l","l","o" >>
\*   updates
P_updates ==
    << "u","p","d","a","t","e","s" >>

\* ' '.join(ps)
RECURSIVE Join(_)
Join(ps) ==
    IF ps = << >> THEN << >>
    ELSE IF Len(ps) = 1 THEN ps[1]
    ELSE ps[1] \o << " " >> \o Join(Tail(ps))

\* the phrases in one order
PhraseList ==
    << P_top, P_how_many, P_average, P_total, P_show, P_customers, P_products,
       P_customers_spending, P_best_selling, P_product_price, P_order_value, P_sales,
       P_hello, P_updates >>

\* the questions of direct _pattern_matching_query calls: the empty question and up to
\* MaxPhrases different phrases, joined in the order of PhraseList (the generator only
\* tests which substrings a question holds)
Questions ==
    { Join([ i \in 1..Len(ix) |-> PhraseList[ix[i]] ]) :
        ix \in { s \in SeqsUpTo(1..Len(PhraseList), MaxPhrases) :
                   \A i \in 1..(Len(s) - 1) : s[i] < s[i + 1] } }
\* the questions posted to the endpoint
RequestQuestions == { PhraseList[i] : i \in 1..Len(PhraseList) }

\*   SELECT * FROM 
F_select_from ==
    << "S","E","L","E","C","T"," ","*"," ","F","R","O","M"," " >>
\*   select id 
F_select_lc ==
    << "s","e","l","e","c","t"," ","i","d"," " >>
\*   from 
F_from_lc ==
    << "f","r","o","m"," " >>
\*   customers
F_customers ==
    << "c","u","s","t","o","m","e","r","s" >>
\*   ghosts
F_ghosts ==
    << "g","h","o","s","t","s" >>
\*    (
F_open ==
    << " ","(" >>
\*   ) 
F_close ==
    << ")"," " >>
\*   COUNT(*) 
F_count ==
    << "C","O","U","N","T","(","*",")"," " >>
\*   ; DROP TABLE x
F_drop ==
    << ";"," ","D","R","O","P"," ","T","A","B","L","E"," ","x" >>
\*    dElEtE
F_delete ==
    << " ","d","E","l","E","t","E" >>
\*    WHERE created_at > 0
F_created_at ==
    << " ","W","H","E","R","E"," ","c","r","e","a","t","e","d","_","a","t"," ",">"," ","0" >>
\*   Insert 
F_insert ==
    << "I","n","s","e","r","t"," " >>
\*   updates
F_updates ==
    << "u","p","d","a","t","e","s" >>
\*   TRUNCATE
F_truncate ==
    << "T","R","U","N","C","A","T","E" >>
\*   alter
F_alter ==
    << "a","l","t","e","r" >>
\*    
F_space ==
    << " " >>
\*   DROP TABLE 
F_drop_table ==
    << "D","R","O","P"," ","T","A","B","L","E"," " >>
Fragments ==
    { F_select_from, F_select_lc, F_from_lc, F_customers, F_ghosts, F_open, F_close, F_count,
      F_drop, F_delete, F_created_at, F_insert, F_updates, F_truncate, F_alter, F_space,
      F_drop_table }
\* the candidates of direct validate_sql_syntax calls, the empty str included
Candidates == { Concat(fs) : fs \in SeqsUpTo(Fragments, MaxFragments) }

\* response.text of the model service
\*   SELECT * FROM customers
R_select_customers ==
    << "S","E","L","E","C","T"," ","*"," ","F","R","O","M"," ","c","u","s","t","o","m","e","r","s" >>
\*   ```sql\nSELECT COUNT(*) FROM orders\n```
R_fenced_count ==
    << Backtick,Backtick,Backtick,"s","q","l","\n","S","E","L","E","C","T"," ","C","O","U","N","T",
       "(","*",")"," ","F","R","O","M"," ","o","r","d","e","r","s","\n",Backtick,Backtick,Backtick >>
\*   Here is the query:\n```sql\nSELECT product_name FROM products LIMIT 5\n```\nIt lists five 
\*   products.
R_prose_fenced ==
    << "H","e","r","e"," ","i","s"," ","t","h","e"," ","q","u","e","r","y",":","\n",Backtick,
       Backtick,Backtick,"s","q","l","\n","S","E","L","E","C","T"," ","p","r","o","d","u","c","t",
       "_","n","a","m","e"," ","F","R","O","M"," ","p","r","o","d","u","c","t","s"," ","L","I","M",
       "I","T"," ","5","\n",Backtick,Backtick,Backtick,"\n","I","t"," ","l","i","s","t","s"," ",
       "f","i","v","e"," ","p","r","o","d","u","c","t","s","." >>
\*   DROP TABLE customers
R_drop ==
    << "D","R","O","P"," ","T","A","B","L","E"," ","c","u","s","t","o","m","e","r","s" >>
\*   SELECT * FROM ghosts
R_ghosts ==
    << "S","E","L","E","C","T"," ","*"," ","F","R","O","M"," ","g","h","o","s","t","s" >>
\*   
R_empty ==
    << >>
\*   Answer: SELECT order_id FROM orders WHERE created_at > 0
R_created_at ==
    << "A","n","s","w","e","r",":"," ","S","E","L","E","C","T"," ","o","r","d","e","r","_","i","d",
       " ","F","R","O","M"," ","o","r","d","e","r","s"," ","W","H","E","R","E"," ","c","r","e","a",
       "t","e","d","_","a","t"," ",">"," ","0" >>
\*   select max(price from products
R_unbalanced ==
    << "s","e","l","e","c","t"," ","m","a","x","(","p","r","i","c","e"," ","f","r","o","m"," ","p",
       "r","o","d","u","c","t","s" >>
\*   I cannot answer that.
R_refusal ==
    << "I"," ","c","a","n","n","o","t"," ","a","n","s","w","e","r"," ","t","h","a","t","." >>
\*   SELECT c.name FROM customers c JOIN orders o ON o.customer_id = c.id WHERE o.total > (SELECT AVG(total) FROM orders) GROUP BY c.name
R_advanced ==
    << "S","E","L","E","C","T"," ","c",".","n","a","m","e"," ","F","R","O","M"," ","c","u","s","t",
       "o","m","e","r","s"," ","c"," ","J","O","I","N"," ","o","r","d","e","r","s"," ","o"," ","O",
       "N"," ","o",".","c","u","s","t","o","m","e","r","_","i","d"," ","="," ","c",".","i","d"," ",
       "W","H","E","R","E"," ","o",".","t","o","t","a","l"," ",">"," ","(","S","E","L","E","C","T",
       " ","A","V","G","(","t","o","t","a","l",")"," ","F","R","O","M"," ","o","r","d","e","r","s",
       ")"," ","G","R","O","U","P"," ","B","Y"," ","c",".","n","a","m","e" >>
RawResponses ==
    { R_select_customers, R_fenced_count, R_prose_fenced, R_drop, R_ghosts, R_empty,
      R_created_at, R_unbalanced, R_refusal, R_advanced }

-----------------------------------------------------------------------------
(* The query endpoint: one request at a time *)

\* a variable not set yet
Nil == [ nil |-> TRUE ]

\* what self.model.generate_content(prompt) and response.text can do: raise, or give a text
ModelOutcomes == { Raise("service error") } \cup { [ text |-> r ] : r \in RawResponses }

\* LLMSQLGenerator.generate_sql_with_llm(user_question, schema_context), by what the
\* model service did (tokens_used is left out)
generate_sql_with_llm(outcome) ==
    IF Raised(outcome)
    THEN [ sql |-> None, success |-> FALSE, error |-> outcome.raised ]
    ELSE [ sql |-> _clean_sql_response(strip(outcome.text)), success |-> TRUE, error |-> "None" ]

\* LLMSQLGenerator.generate_query_explanation(sql, user_question): the model's text,
\* or the templated sentence when the call raised
Explanations(q) ==
    { Lit("<text of the model service>"),
      Fmt("This query retrieves data from the database related to: {user_question}", q) }

\* the requests the server has accepted and not answered yet are among these two
Requests == { 1, 2 }

\* a request that is not in flight
NoCall == [ pc |-> "idle", op |-> "none", pending |-> Nil, last |-> Nil ]

\* SQLiteIntrospector.__init__: self.conn = None; no request in flight
StoreInit ==
    /\ conn = 0
    /\ connections = << >>
    /\ calls = [ r \in Requests |-> NoCall ]
    /\ running = 0

Init ==
    /\ table_names \in Catalogs
    /\ hash_order \in HashOrders(table_names)
    /\ llm_generator \in BOOLEAN
    /\ introspector \in BOOLEAN
    /\ pc = "idle"
    /\ question = << >>
    /\ llm_result = Nil
    /\ result = Nil
    /\ execution_result = Nil
    /\ response = Nil
    /\ llm_calls = 0
    /\ det_calls = 0
    /\ validated = {}
    /\ executed = << >>
    /\ steps = << >>
    /\ model_response = Nil
    /\ candidate = << >>
    /\ verdict = FALSE
    /\ first_sql = None
    /\ argument = Nil
    /\ returned = Nil
    /\ StoreInit

\* main.process_query is entered with a request
Receive ==
    /\ pc = "idle"
    /\ \E q \in RequestQuestions : question' = q
    /\ pc' = "process_query"
    /\ llm_result' = Nil
    /\ result' = Nil
    /\ execution_result' = Nil
    /\ response' = Nil
    /\ llm_calls' = 0
    /\ det_calls' = 0
    /\ validated' = {}
    /\ executed' = << >>
    /\ steps' = << >>
    /\ model_response' = Nil
    /\ UNCHANGED << cfgVars, storeVars, callVars >>

\* TryModel without the try of lines 41-83: an exception of the schema formatting leaves
\* process_query
TryModel_uncaught ==
    /\ pc = "process_query"
    /\ llm_generator /\ introspector
    /\ \E context_raised \in BOOLEAN :
          /\ pc' = IF context_raised THEN "respond" ELSE "generate"
          /\ result' = IF context_raised THEN Raise("schema context") ELSE result
    /\ steps' = Append(steps, "format_context")
    /\ UNCHANGED << cfgVars, storeVars, callVars, question, llm_result, execution_result,
                    response, llm_calls, det_calls, validated, executed, model_response >>

\* NLToSQLProcessor.process_query, lines 40-46: with a generator and an introspector,
\* format_schema_for_llm() and get_llm_context() run, and either can raise
TryModel ==
    /\ pc = "process_query"
    /\ llm_generator /\ introspector
    /\ \E context_raised \in BOOLEAN :
          pc' = IF context_raised THEN "fallback" ELSE "generate"
    /\ steps' = Append(steps, "format_context")
    /\ UNCHANGED << cfgVars, storeVars, callVars, question, llm_result, result, execution_result,
                    response, llm_calls, det_calls, validated, executed, model_response >>

\* line 40: no generator or no introspector
SkipModel ==
    /\ pc = "process_query"
    /\ ~(llm_generator /\ introspector)
    /\ pc' = "fallback"
    /\ UNCHANGED << cfgVars, storeVars, callVars, question, llm_result, result, execution_result,
                    response, llm_calls, det_calls, validated, executed, steps, model_response >>

\* Generate that calls the model again when the call failed
Generate_retrying ==
    /\ pc = "generate"
    /\ llm_calls' = llm_calls + 1
    /\ \E outcome \in ModelOutcomes :
          /\ model_response' = outcome
          /\ llm_result' = generate_sql_with_llm(outcome)
          /\ pc' = IF llm_result'.success /\ Truthy(llm_result'.sql) THEN "validate"
                   ELSE IF llm_calls' < 2 THEN "generate"
                   ELSE "fallback"
    /\ steps' = Append(steps, "generate")
    /\ UNCHANGED << cfgVars, storeVars, callVars, question, result, execution_result, response,
                    det_calls, validated, executed >>

\* lines 49-51: the one call of generate_sql_with_llm and the test of its result
Generate ==
    /\ pc = "generate"
    /\ llm_calls' = llm_calls + 1
    /\ \E outcome \in ModelOutcomes :
          /\ model_response' = outcome
          /\ llm_result' = generate_sql_with_llm(outcome)
          /\ pc' = IF llm_result'.success /\ Truthy(llm_result'.sql) THEN "validate"
                   ELSE "fallback"
    /\ steps' = Append(steps, "generate")
    /\ UNCHANGED << cfgVars, storeVars, callVars, question, result, execution_result, response,
                    det_calls, validated, executed >>

\* Validate that accepts whatever the model returned
Validate_unchecked ==
    /\ pc = "validate"
    /\ pc' = "diagnose"
    /\ validated' = validated
    /\ steps' = Append(steps, "validate")
    /\ UNCHANGED << cfgVars, storeVars, callVars, question, llm_result, result, execution_result,
                    response, llm_calls, det_calls, executed, model_response >>

\* line 55: validate_sql_syntax(sql)
Validate ==
    /\ pc = "validate"
    /\ IF validate_sql_syntax(llm_result.sql)
       THEN /\ validated' = validated \cup { llm_result.sql }
            /\ pc' = "diagnose"
       ELSE /\ validated' = validated
            /\ pc' = "fallback"
    /\ steps' = Append(steps, "validate")
    /\ UNCHANGED << cfgVars, storeVars, callVars, question, llm_result, result, execution_result,
                    response, llm_calls, det_calls, executed, model_response >>

\* lines 56-74: explanation, confidence, tables and the returned dict
Diagnose ==
    /\ pc = "diagnose"
    /\ \E explanation \in Explanations(question) :
          result' = [ sql_query |-> llm_result.sql,
                      explanation |-> explanation,
                      generation_method |-> "llm",
                      confidence |-> calculate_confidence_score(llm_result.sql, llm_context_keys),
                      tables_used |-> extract_tables_from_sql(llm_result.sql) ]
    /\ pc' = "execute"
    /\ steps' = steps \o << "explanation", "confidence", "tables_used" >>
    /\ UNCHANGED << cfgVars, storeVars, callVars, question, llm_result, execution_result, response,
                    llm_calls, det_calls, validated, executed, model_response >>

\* Fallback that reports the error of the model attempt in the explanation
Fallback_reporting ==
    /\ pc = "fallback"
    /\ det_calls' = det_calls + 1
    /\ LET r == _pattern_matching_query(question)
       IN  result' = IF Raised(r) \/ llm_result = Nil \/ llm_result.success THEN r
                     ELSE [ r EXCEPT !.explanation = Fmt("Model failed: {error}", llm_result.error) ]
    /\ pc' = IF Raised(result') THEN "respond" ELSE "execute"
    /\ steps' = steps \o IF Raised(result') THEN << "fallback" >>
                          ELSE << "fallback", "explanation", "confidence", "tables_used" >>
    /\ UNCHANGED << cfgVars, storeVars, callVars, question, llm_result, execution_result, response,
                    llm_calls, validated, executed, model_response >>

\* line 85: return self._pattern_matching_query(question); an exception it raised
\* leaves process_query and is caught in main.process_query, line 349
Fallback ==
    /\ pc = "fallback"
    /\ det_calls' = det_calls + 1
    /\ result' = _pattern_matching_query(question)
    /\ pc' = IF Raised(result') THEN "respond" ELSE "execute"
    /\ steps' = steps \o IF Raised(result') THEN << "fallback" >>
                          ELSE << "fallback", "explanation", "confidence", "tables_used" >>
    /\ UNCHANGED << cfgVars, storeVars, callVars, question, llm_result, execution_result, response,
                    llm_calls, validated, executed, model_response >>

\* main.process_query, line 315: execute_query(sql_query) of the module's own
\* SQLiteIntrospector (main.py line 65), which returns the rows or the error of the store
Execute ==
    /\ pc = "execute"
    /\ executed' = Append(executed, result.sql_query)
    /\ \/ \E n \in 0..MaxRows : execution_result' = [ columns |-> "columns", row_count |-> n ]
       \/ execution_result' = [ error |-> "str(e)" ]
    /\ pc' = "respond"
    /\ steps' = Append(steps, "execute")
    /\ UNCHANGED << cfgVars, storeVars, callVars, question, llm_result, result, response, llm_calls,
                    det_calls, validated, model_response >>

\* main.py line 318: the exception raised on the error arm of execute_query
execution_error ==
    [ raised |-> "HTTPException", status_code |-> 400,
      detail |-> "SQL execution error: {execution_result['error']}" ]

\* main.py lines 349-350: `except Exception as e` answers every exception e of the try,
\* the HTTPException of line 318 included, in one way
processing_error(e) ==
    [ status_code |-> 500, detail |-> Fmt("Query processing error: {str(e)}", e.raised) ]

\* Respond that, on the error arm, goes to the deterministic generator and executes
\* its SQL in place of the failed one (once)
Respond_retrying ==
    /\ pc = "respond"
    /\ IF ~Raised(result) /\ "error" \in DOMAIN execution_result /\ Len(executed) < 2
       THEN /\ pc' = "fallback"
            /\ response' = response
            /\ steps' = steps
       ELSE /\ pc' = "done"
            /\ response' =
                  IF Raised(result) THEN processing_error(result)
                  ELSE IF "error" \in DOMAIN execution_result
                       THEN processing_error(execution_error)
                  ELSE [ status_code |-> 200,
                         original_question |-> question,
                         sql_query |-> result.sql_query,
                         explanation |-> result.explanation,
                         results |-> execution_result.row_count,
                         confidence |-> enhanced_confidence(result.confidence),
                         generation_method |-> result.generation_method,
                         tables_used |-> result.tables_used,
                         query_complexity |-> determine_query_complexity(result.sql_query) ]
            /\ steps' = steps \o IF Raised(result) \/ "error" \in DOMAIN execution_result
                                  THEN << >>
                                  ELSE << "confidence_shift", "complexity", "why_this_query" >>
    /\ UNCHANGED << cfgVars, storeVars, callVars, question, llm_result, result, execution_result,
                    llm_calls, det_calls, validated, executed, model_response >>

\* main.process_query, lines 317-350: HTTPException(400) on the error arm, raised
\* inside the try and caught by `except Exception`, which raises HTTPException(500);
\* else the confidence shift, the complexity, the long explanation and the QueryResponse
Respond ==
    /\ pc = "respond"
    /\ response' =
          IF Raised(result) THEN processing_error(result)
          ELSE IF "error" \in DOMAIN execution_result THEN processing_error(execution_error)
          ELSE [ status_code |-> 200,
                 original_question |-> question,
                 sql_query |-> result.sql_query,
                 explanation |-> result.explanation,
                 results |-> execution_result.row_count,
                 confidence |-> enhanced_confidence(result.confidence),
                 generation_method |-> result.generation_method,
                 tables_used |-> result.tables_used,
                 query_complexity |-> determine_query_complexity(result.sql_query) ]
    /\ pc' = "done"
    /\ steps' = steps \o IF Raised(result) \/ "error" \in DOMAIN execution_result THEN << >>
                          ELSE << "confidence_shift", "complexity", "why_this_query" >>
    /\ UNCHANGED << cfgVars, storeVars, callVars, question, llm_result, result, execution_result,
                    llm_calls, det_calls, validated, executed, model_response >>

\* the endpoint returned; the next request can come
Finish ==
    /\ pc = "done"
    /\ pc' = "idle"
    /\ UNCHANGED << cfgVars, storeVars, callVars, question, llm_result, result, execution_result,
                    response, llm_calls, det_calls, validated, executed, steps, model_response >>

Next ==
    \/ Receive
    \/ TryModel
    \/ SkipModel
    \/ Generate
    \/ Validate
    \/ Diagnose
    \/ Fallback
    \/ Execute
    \/ Respond
    \/ Finish

Spec == Init /\ [][Next]_vars

-----------------------------------------------------------------------------
(* Direct calls of validate_sql_syntax *)

\* what validate_sql_syntax(sql) tells besides its bool: the warning it logs before
\* `return False` (lines 286-305); the first test, line 283, logs nothing
validate_sql_syntax_warning(sql) ==
    IF ~Truthy(sql) THEN Nil
    ELSE LET sql_lower == strip(lower(sql))
             found == { k \in 1..Len(dangerous_keywords) : In(dangerous_keywords[k], sql_lower) }
         IN  IF ~startswith(sql_lower, kw_select)
             THEN Lit("SQL validation failed: Query does not start with SELECT")
             ELSE IF ~In(kw_from, sql_lower)
             THEN Lit("SQL validation failed: Query does not contain FROM clause")
             ELSE IF count(sql, "(") # count(sql, ")")
             THEN Lit("SQL validation failed: Unbalanced parentheses")
             ELSE IF found # {}
             THEN Fmt("SQL validation failed: Contains dangerous keyword '{keyword}'",
                      dangerous_keywords[Min(found)])
             ELSE Nil

InitValidate ==
    /\ candidate \in Candidates
    /\ verdict = FALSE
    /\ pc = "validate_call"
    /\ table_names = << >>
    /\ hash_order = << >>
    /\ llm_generator = FALSE
    /\ introspector = FALSE
    /\ question = << >>
    /\ llm_result = Nil
    /\ result = Nil
    /\ execution_result = Nil
    /\ response = Nil
    /\ llm_calls = 0
    /\ det_calls = 0
    /\ validated = {}
    /\ executed = << >>
    /\ steps = << >>
    /\ model_response = Nil
    /\ first_sql = None
    /\ argument = Nil
    /\ returned = Nil
    /\ StoreInit

\* validate_sql_syntax(candidate) is called and returns
ValidateCall ==
    /\ pc = "validate_call"
    /\ verdict' = validate_sql_syntax(candidate)
    /\ pc' = "validate_returned"
    /\ UNCHANGED << cfgVars, storeVars, question, llm_result, result, execution_result, response,
                    llm_calls, det_calls, validated, executed, candidate, first_sql, steps,
                    model_response, argument, returned >>

NextValidate == ValidateCall

SpecValidate == InitValidate /\ [][NextValidate]_vars

-----------------------------------------------------------------------------
(* Direct calls of _pattern_matching_query *)

InitPattern ==
    /\ table_names \in Catalogs
    /\ hash_order \in HashOrders(table_names)
    /\ question \in Questions
    /\ pc = "pattern_call"
    /\ result = Nil
    /\ first_sql = None
    /\ argument = Nil
    /\ returned = Nil
    /\ llm_generator = FALSE
    /\ introspector = FALSE
    /\ llm_result = Nil
    /\ execution_result = Nil
    /\ response = Nil
    /\ llm_calls = 0
    /\ det_calls = 0
    /\ validated = {}
    /\ executed = << >>
    /\ steps = << >>
    /\ model_response = Nil
    /\ candidate = << >>
    /\ verdict = FALSE
    /\ StoreInit

\* _pattern_matching_query(question) is called and returns
PatternCall ==
    /\ pc = "pattern_call"
    /\ result' = _pattern_matching_query(question)
    /\ first_sql' = IF Raised(result') THEN None ELSE result'.sql_query
    /\ pc' = "pattern_returned"
    /\ UNCHANGED << cfgVars, storeVars, question, llm_result, execution_result, response, llm_calls,
                    det_calls, validated, executed, candidate, verdict, steps, model_response,
                    argument, returned >>

\* the process is started again (main.py, lines 65-67) on the same schema: the new
\* interpreter has another hash seed
Restart ==
    /\ pc = "pattern_returned"
    /\ hash_order' \in HashOrders(table_names)
    /\ UNCHANGED << table_names, llm_generator, introspector, reqVars, callVars, storeVars >>

\* _pattern_matching_query(question) is called again with the same question
PatternCallAgain ==
    /\ pc = "pattern_returned"
    /\ result' = _pattern_matching_query(question)
    /\ pc' = "pattern_returned_again"
    /\ UNCHANGED << cfgVars, storeVars, question, llm_result, execution_result, response, llm_calls,
                    det_calls, validated, executed, callVars, steps, model_response >>

NextPattern ==
    \/ PatternCall
    \/ Restart
    \/ PatternCallAgain

SpecPattern == InitPattern /\ [][NextPattern]_vars

-----------------------------------------------------------------------------
(* The SQLiteIntrospector of main.py under the requests of the event loop *)

\* the operations of SQLiteIntrospector that open a connection (format_schema_for_llm
\* does it by calling get_llm_context)
Operations == { "execute_query", "get_schema_details", "get_llm_context" }

\* what cursor(), execute() and fetchall() can do on an open connection
StoreOutcomes == { Raise("sqlite3.OperationalError") } \cup { [ rows |-> n ] : n \in 0..MaxRows }

\* execute_query, lines 161-174, without `except Exception as e`
execute_query_uncaught(outcome) ==
    IF Raised(outcome) THEN outcome
    ELSE [ columns |-> "columns", data |-> outcome.rows, row_count |-> outcome.rows ]

\* execute_query, lines 161-174: the dict of line 172, or the dict of line 174 for
\* every exception of the try, the one of connect() included
execute_query(outcome) ==
    IF Raised(outcome) THEN [ error |-> outcome.raised ]
    ELSE [ columns |-> "columns", data |-> outcome.rows, row_count |-> outcome.rows ]

\* get_schema_details and get_llm_context have try/finally and no except: an exception
\* of the try leaves the operation after the finally
introspect(outcome) ==
    IF Raised(outcome) THEN outcome ELSE [ schema |-> "schema" ]

\* what the operation op returns or raises after its try ended with outcome
Outcome(op, outcome) ==
    IF op = "execute_query" THEN execute_query(outcome) ELSE introspect(outcome)

\* close() that closes nothing
close_nothing(cs, c, r) == cs

\* SQLiteIntrospector.close(), called by request r: `if self.conn: self.conn.close()`
\* with self.conn = c; closing a closed connection changes nothing
close(cs, c, r) ==
    IF c = 0 THEN cs
    ELSE [ cs EXCEPT ![c].open = FALSE, ![c].closed_by = @ \cup { r } ]

\* the event loop starts the handler of a request when it runs no handler: the
\* endpoints of main.py are `async def` and hold no await, so a handler runs to its
\* return before the next one starts
Schedulable(r) == running = 0

InitStore ==
    /\ StoreInit
    /\ table_names = << >>
    /\ hash_order = << >>
    /\ llm_generator = FALSE
    /\ introspector = TRUE
    /\ pc = "store"
    /\ question = << >>
    /\ llm_result = Nil
    /\ result = Nil
    /\ execution_result = Nil
    /\ response = Nil
    /\ llm_calls = 0
    /\ det_calls = 0
    /\ validated = {}
    /\ executed = << >>
    /\ steps = << >>
    /\ model_response = Nil
    /\ candidate = << >>
    /\ verdict = FALSE
    /\ first_sql = None
    /\ argument = Nil
    /\ returned = Nil

\* the server accepts request r
Arrive(r) ==
    /\ calls[r].pc = "idle"
    /\ calls' = [ calls EXCEPT ![r] = [ NoCall EXCEPT !.pc = "queued" ] ]
    /\ UNCHANGED << cfgVars, reqVars, callVars, conn, connections, running >>

\* the event loop enters the handler of request r
Start(r) ==
    /\ calls[r].pc = "queued"
    /\ Schedulable(r)
    /\ running' = r
    /\ calls' = [ calls EXCEPT ![r].pc = "handler" ]
    /\ UNCHANGED << cfgVars, reqVars, callVars, conn, connections >>

\* the handler of r calls an operation of the introspector: the try begins
CallOp(r) ==
    /\ calls[r].pc = "handler"
    /\ \E op \in Operations :
          calls' = [ calls EXCEPT ![r].pc = "connect", ![r].op = op, ![r].pending = Nil ]
    /\ UNCHANGED << cfgVars, reqVars, callVars, conn, connections, running >>

\* connect(), lines 11-12: sqlite3.connect raises and self.conn keeps its value, or
\* self.conn is bound to a new connection
Connect(r) ==
    /\ calls[r].pc = "connect"
    /\ \/ /\ calls' = [ calls EXCEPT ![r].pc = "finally",
                                    ![r].pending = Raise("sqlite3.OperationalError") ]
          /\ UNCHANGED << conn, connections >>
       \/ /\ Len(connections) < MaxConnections
          /\ connections' =
                Append(IF conn = 0 THEN connections
                       ELSE [ connections EXCEPT ![conn].overwritten_by = @ \cup { r } ],
                       [ opened_by |-> r, open |-> TRUE, used_by |-> {},
                         closed_by |-> {}, overwritten_by |-> {} ])
          /\ conn' = Len(connections) + 1
          /\ calls' = [ calls EXCEPT ![r].pc = "body" ]
    /\ UNCHANGED << cfgVars, reqVars, callVars, running >>

\* the rest of the try: self.conn.cursor(), execute, fetchall, cur.close(); on a
\* closed connection they raise sqlite3.ProgrammingError
Body(r) ==
    /\ calls[r].pc = "body"
    /\ connections' = [ connections EXCEPT ![conn].used_by = @ \cup { r } ]
    /\ \E outcome \in IF connections[conn].open THEN StoreOutcomes
                      ELSE { Raise("sqlite3.ProgrammingError") } :
          calls' = [ calls EXCEPT ![r].pc = "finally", ![r].pending = outcome ]
    /\ UNCHANGED << cfgVars, reqVars, callVars, conn, running >>

\* except and finally: self.close(), then the operation returns or raises
Finally(r) ==
    /\ calls[r].pc = "finally"
    /\ connections' = close(connections, conn, r)
    /\ calls' = [ calls EXCEPT ![r].pc = "handler",
                               ![r].last = Outcome(calls[r].op, calls[r].pending),
                               ![r].pending = Nil ]
    /\ UNCHANGED << cfgVars, reqVars, callVars, conn, running >>

\* the handler of r returns (an exception of an operation was answered by the
\* endpoint's except); the event loop is free and sends the response
Return(r) ==
    /\ calls[r].pc = "handler"
    /\ calls' = [ calls EXCEPT ![r].pc = "responding" ]
    /\ running' = 0
    /\ UNCHANGED << cfgVars, reqVars, callVars, conn, connections >>

\* the response of r is sent: r is no longer in flight
Reply(r) ==
    /\ calls[r].pc = "responding"
    /\ calls' = [ calls EXCEPT ![r].pc = "idle" ]
    /\ UNCHANGED << cfgVars, reqVars, callVars, conn, connections, running >>

NextStore ==
    \E r \in Requests :
        \/ Arrive(r)
        \/ Start(r)
        \/ CallOp(r)
        \/ Connect(r)
        \/ Body(r)
        \/ Finally(r)
        \/ Return(r)
        \/ Reply(r)

SpecStore == InitStore /\ [][NextStore]_vars

-----------------------------------------------------------------------------
(* Direct calls of determine_query_complexity *)

\* the most features a SQL string of a direct call holds
MaxFeatures == 3

\*   SELECT * FROM a
X_head ==
    << "S","E","L","E","C","T"," ","*"," ","F","R","O","M"," ","a" >>
\*    JOIN b
X_join ==
    << " ","J","O","I","N"," ","b" >>
\*    GROUP BY x
X_group_by ==
    << " ","G","R","O","U","P"," ","B","Y"," ","x" >>
\*    Having n > 1
X_having ==
    << " ","H","a","v","i","n","g"," ","n"," ",">"," ","1" >>
\*    WHERE x IN (SELECT 1)
X_paren_select ==
    << " ","W","H","E","R","E"," ","x"," ","I","N"," ","(","S","E","L","E","C","T"," ","1",")" >>
\*    AS subquery
X_subquery ==
    << " ","A","S"," ","s","u","b","q","u","e","r","y" >>
\*    UNION
X_union ==
    << " ","U","N","I","O","N" >>
\*    intersect
X_intersect ==
    << " ","i","n","t","e","r","s","e","c","t" >>
\*    CASE WHEN
X_case_when ==
    << " ","C","A","S","E"," ","W","H","E","N" >>
\*    WINDOW w
X_window ==
    << " ","W","I","N","D","O","W"," ","w" >>
\*    OVER(x)
X_over ==
    << " ","O","V","E","R","(","x",")" >>
\*    OVER (x)
X_over_spaced ==
    << " ","O","V","E","R"," ","(","x",")" >>
Features ==
    { X_join, X_group_by, X_having, X_paren_select, X_subquery, X_union, X_intersect,
      X_case_when, X_window, X_over, X_over_spaced }
\* the SQL strings of direct determine_query_complexity calls: a feature can come twice
ComplexityInputs == { X_head \o Concat(fs) : fs \in SeqsUpTo(Features, MaxFeatures) }

InitComplexity ==
    /\ argument \in ComplexityInputs
    /\ returned = Nil
    /\ pc = "complexity_call"
    /\ table_names = << >>
    /\ hash_order = << >>
    /\ llm_generator = FALSE
    /\ introspector = FALSE
    /\ question = << >>
    /\ llm_result = Nil
    /\ result = Nil
    /\ execution_result = Nil
    /\ response = Nil
    /\ llm_calls = 0
    /\ det_calls = 0
    /\ validated = {}
    /\ executed = << >>
    /\ steps = << >>
    /\ model_response = Nil
    /\ candidate = << >>
    /\ verdict = FALSE
    /\ first_sql = None
    /\ StoreInit

\* determine_query_complexity(argument) is called and returns
ComplexityCall ==
    /\ pc = "complexity_call"
    /\ returned' = determine_query_complexity(argument)
    /\ pc' = "complexity_returned"
    /\ UNCHANGED << cfgVars, storeVars, question, llm_result, result, execution_result, response,
                    llm_calls, det_calls, validated, executed, steps, model_response,
                    candidate, verdict, first_sql, argument >>

NextComplexity == ComplexityCall

SpecComplexity == InitComplexity /\ [][NextComplexity]_vars

-----------------------------------------------------------------------------
(* Direct calls of _clean_sql_response, as generate_sql_with_llm calls it *)

\*   
T_none ==
    << >>
\*   Here is the query:\n
T_here ==
    << "H","e","r","e"," ","i","s"," ","t","h","e"," ","q","u","e","r","y",":","\n" >>
\*   Here you go: 
T_here_inline ==
    << "H","e","r","e"," ","y","o","u"," ","g","o",":"," " >>
\*   Select the names like this:\n
T_select_prose ==
    << "S","e","l","e","c","t"," ","t","h","e"," ","n","a","m","e","s"," ","l","i","k","e"," ","t",
       "h","i","s",":","\n" >>
\*   Answer: 
T_answer ==
    << "A","n","s","w","e","r",":"," " >>
\*   ```sql\n
T_fence_sql ==
    << Backtick,Backtick,Backtick,"s","q","l","\n" >>
\*   ```SQL\n
T_fence_SQL ==
    << Backtick,Backtick,Backtick,"S","Q","L","\n" >>
\*   ```\n
T_fence ==
    << Backtick,Backtick,Backtick,"\n" >>
\*   SELECT name FROM customers
T_one_line ==
    << "S","E","L","E","C","T"," ","n","a","m","e"," ","F","R","O","M"," ","c","u","s","t","o","m",
       "e","r","s" >>
\*   select id from orders limit 5
T_lower ==
    << "s","e","l","e","c","t"," ","i","d"," ","f","r","o","m"," ","o","r","d","e","r","s"," ","l",
       "i","m","i","t"," ","5" >>
\*   SELECT name\nFROM customers
T_two_lines ==
    << "S","E","L","E","C","T"," ","n","a","m","e","\n","F","R","O","M"," ","c","u","s","t","o",
       "m","e","r","s" >>
\*   \n```
T_close ==
    << "\n",Backtick,Backtick,Backtick >>
\*   \nThis returns the names.
T_after ==
    << "\n","T","h","i","s"," ","r","e","t","u","r","n","s"," ","t","h","e"," ","n","a","m","e",
       "s","." >>
\*   \n\nNote: SELECT only reads.
T_after_note ==
    << "\n","\n","N","o","t","e",":"," ","S","E","L","E","C","T"," ","o","n","l","y"," ","r","e",
       "a","d","s","." >>
\* the responses of the model service: prose, a fence, a SELECT statement on one line or
\* on two, the closing fence, prose
FencedResponses ==
    [ before : { T_none, T_here, T_here_inline, T_select_prose, T_answer },
      open : { T_fence_sql, T_fence_SQL, T_fence },
      statement : { T_one_line, T_lower, T_two_lines },
      close : { T_close },
      after : { T_none, T_after, T_after_note } ]

\* response.text
Text(r) == r.before \o r.open \o r.statement \o r.close \o r.after

InitClean ==
    /\ argument \in FencedResponses
    /\ returned = Nil
    /\ pc = "clean_call"
    /\ table_names = << >>
    /\ hash_order = << >>
    /\ llm_generator = FALSE
    /\ introspector = FALSE
    /\ question = << >>
    /\ llm_result = Nil
    /\ result = Nil
    /\ execution_result = Nil
    /\ response = Nil
    /\ llm_calls = 0
    /\ det_calls = 0
    /\ validated = {}
    /\ executed = << >>
    /\ steps = << >>
    /\ model_response = Nil
    /\ candidate = << >>
    /\ verdict = FALSE
    /\ first_sql = None
    /\ StoreInit

\* llm_sql_generator.py lines 102-105: _clean_sql_response(response.text.strip())
CleanCall ==
    /\ pc = "clean_call"
    /\ returned' = _clean_sql_response(strip(Text(argument)))
    /\ pc' = "clean_returned"
    /\ UNCHANGED << cfgVars, storeVars, question, llm_result, result, execution_result, response,
                    llm_calls, det_calls, validated, executed, steps, model_response,
                    candidate, verdict, first_sql, argument >>

NextClean == CleanCall

SpecClean == InitClean /\ [][NextClean]_vars

-----------------------------------------------------------------------------
(* The claims *)

\* NLToSQLProcessor.process_query has returned and main.process_query holds its result
Returned == pc \in { "execute", "respond", "done" } /\ ~Raised(result)

\* the model path of this request ended with SQL the validator accepted
ModelAccepted ==
    /\ llm_generator /\ introspector
    /\ llm_calls = 1
    /\ llm_result.success
    /\ Truthy(llm_result.sql)
    /\ llm_result.sql \in validated

\* the table names of the catalog, in lower case
CatalogTables == { lower(table_names[i]) : i \in 1..Len(table_names) }

\* C1: process_query returns generation_method "llm" if and only if a generator and an
\* introspector are configured, the model call returned success with non-empty SQL and
\* the validator accepted that SQL; otherwise it returns the deterministic generator's
\* result, tagged "fallback". A result tagged "llm" carries SQL the validator accepts.
C1_ModelTagIffAccepted ==
    Returned =>
        /\ result.generation_method = "llm" <=> ModelAccepted
        /\ result.generation_method = "llm" =>
              /\ result.sql_query = llm_result.sql
              /\ validate_sql_syntax(result.sql_query)
        /\ result.generation_method # "llm" =>
              /\ result.generation_method = "fallback"
              /\ result = _pattern_matching_query(question)

C1_Witness ==
    /\ pc = "done"
    /\ result.generation_method = "llm"
    /\ response.status_code = 200

\* C2: whatever the model path did (the context formatting raised, the call failed,
\* the SQL was empty or the validator rejected it), process_query raises nothing and
\* returns the deterministic generator's result; the endpoint reports no failure
\* unless the executor returned its error arm.
C2_FailureRecoveredLocally ==
    /\ pc \in { "execute", "respond", "done" } /\ ~ModelAccepted =>
          /\ ~Raised(result)
          /\ det_calls = 1
          /\ result = _pattern_matching_query(question)
    /\ pc = "done" /\ response.status_code # 200 => "error" \in DOMAIN execution_result

C2_Witness ==
    /\ pc = "done"
    /\ llm_calls = 1
    /\ llm_result.success
    /\ Truthy(llm_result.sql)
    /\ llm_result.sql \notin validated
    /\ response.status_code = 200
    /\ response.generation_method = "fallback"

\* C3: within one request generate_sql_with_llm is called at most once and
\* _pattern_matching_query at most once, the latter only when the model attempt was
\* skipped, failed or was rejected by the validator, and the model is not called
\* after the deterministic generator.
C3_OneFallbackHop ==
    /\ [](/\ llm_calls <= 1
          /\ det_calls <= 1
          /\ det_calls = 1 =>
                \/ llm_calls = 0
                \/ ~llm_result.success
                \/ ~Truthy(llm_result.sql)
                \/ llm_result.sql \notin validated)
    /\ [][det_calls = 1 /\ pc # "idle" => llm_calls' = llm_calls /\ det_calls' = det_calls]_vars

C3_Witness ==
    /\ pc = "done"
    /\ llm_calls = 1
    /\ det_calls = 1

\* the mutating keywords, as the claim lists them
MutatingKeywords ==
    << << "i","n","s","e","r","t" >>,
       << "u","p","d","a","t","e" >>,
       << "d","e","l","e","t","e" >>,
       << "d","r","o","p" >>,
       << "a","l","t","e","r" >>,
       << "c","r","e","a","t","e" >>,
       << "t","r","u","n","c","a","t","e" >> >>

\* C4: the validator rejects every string that holds insert, update, delete, drop,
\* alter, create or truncate as a substring, in any letter case, at any position.
C4_MutatingKeywordRejected ==
    pc = "validate_returned" /\ AnyIn(MutatingKeywords, lower(candidate)) => verdict = FALSE

\* a SELECT ... FROM with balanced parentheses whose only fault is a keyword in upper
\* or mixed case, after the start of the string
C4_Witness ==
    /\ pc = "validate_returned"
    /\ startswith(strip(lower(candidate)), kw_select)
    /\ In(kw_from, lower(candidate))
    /\ count(candidate, "(") = count(candidate, ")")
    /\ AnyIn(MutatingKeywords, lower(candidate))
    /\ ~AnyIn(MutatingKeywords, candidate)
    /\ verdict = FALSE

\* C5: the validator rejects SQL that names, after FROM or JOIN, a table the catalog
\* does not hold.
C5_AbsentTableRejected ==
    \A sql \in validated : extract_tables_from_sql(sql) \subseteq CatalogTables

\* C6: the SQL handed to execute_query was accepted by the validator earlier in the
\* same request.
C6_ExecutedWasValidated ==
    \A i \in 1..Len(executed) : executed[i] \in validated

\* _pattern_matching_query has returned
PatternReturned == pc \in { "pattern_returned", "pattern_returned_again" }

\* C7: every table named after FROM or JOIN in the deterministic generator's SQL is a
\* table of the catalog.
C7_DeterministicGrounded ==
    PatternReturned /\ ~Raised(result) =>
        _extract_tables_from_sql(result.sql_query) \subseteq CatalogTables

\* C8: the validator accepts the SQL of the deterministic generator, for every
\* question and catalog.
C8_DeterministicValidatorSafe ==
    PatternReturned /\ ~Raised(result) => validate_sql_syntax(result.sql_query)

\* C9: _pattern_matching_query raises nothing and returns a dict with sql_query,
\* explanation, generation_method, confidence and tables_used, for every question and
\* every catalog, the empty one included.
C9_DeterministicNeverRaises ==
    PatternReturned =>
        /\ ~Raised(result)
        /\ { "sql_query", "explanation", "generation_method", "confidence", "tables_used" }
              \subseteq DOMAIN result

\* the empty catalog, and a question no category and no table matches
C9_Witness ==
    /\ pc = "pattern_returned"
    /\ table_names = << >>
    /\ question = P_hello
    /\ ~Raised(result)
    /\ result.sql_query = SQL_generic_default

\* C10: a repeated call of the deterministic generator with the same question and the
\* same catalog returns the same SQL string.
C10_DeterministicIdempotent ==
    pc = "pattern_returned_again" /\ ~Raised(result) => result.sql_query = first_sql

\* the template a returned result carries
ResultTemplate == Template(result.sql_query, result.explanation)

\* the templates of the five cue categories of _pattern_matching_query
CategoryTemplates ==
    [ top |->
        { Template(SQL_top_customers_spend, Lit(EXPL_top_customers_spend)),
          Template(SQL_top_customers, Lit(EXPL_top_customers)),
          Template(SQL_top_products_selling, Lit(EXPL_top_products_selling)),
          Template(SQL_top_products_price, Lit(EXPL_top_products_price)),
          Template(SQL_top_default, Lit(EXPL_top_default)) },
      count |->
        { Template(SQL_count_customers, Lit(EXPL_count_customers)),
          Template(SQL_count_orders, Lit(EXPL_count_orders)),
          Template(SQL_count_products, Lit(EXPL_count_products)),
          Template(SQL_count_default, Lit(EXPL_count_default)) },
      average |->
        { Template(SQL_avg_order_value, Lit(EXPL_avg_order_value)),
          Template(SQL_avg_price, Lit(EXPL_avg_price)),
          Template(SQL_avg_default, Lit(EXPL_avg_default)) },
      sum |->
        { Template(SQL_sum_revenue, Lit(EXPL_sum_revenue)),
          Template(SQL_sum_default, Lit(EXPL_sum_default)) },
      list |->
        { Template(SQL_list_customers, Lit(EXPL_list_customers)),
          Template(SQL_list_products, Lit(EXPL_list_products)),
          Template(SQL_list_orders, Lit(EXPL_list_orders)),
          Template(SQL_list_default, Lit(EXPL_list_default)) } ]
\* the explanations only _handle_generic_query gives
GenericExplanations == { EXPL_generic_table, EXPL_generic_default }

\* a cue of the word list occurs in the lower-cased question
Cue(words) == AnyIn(words, lower(question))

\* C11: the categories are tried on the lower-cased question in the order superlative,
\* count, average, sum, list, generic, and the first category with a cue alone gives
\* the template; the generic handler runs only when no cue of the five occurs.
C11_OrderedDispatch ==
    PatternReturned /\ ~Raised(result) =>
        /\ Cue(top_words) => ResultTemplate \in CategoryTemplates.top
        /\ ~Cue(top_words) /\ Cue(count_words) => ResultTemplate \in CategoryTemplates.count
        /\ ~Cue(top_words) /\ ~Cue(count_words) /\ Cue(average_words)
              => ResultTemplate \in CategoryTemplates.average
        /\ ~Cue(top_words) /\ ~Cue(count_words) /\ ~Cue(average_words) /\ Cue(sum_words)
              => ResultTemplate \in CategoryTemplates.sum
        /\ ~Cue(top_words) /\ ~Cue(count_words) /\ ~Cue(average_words) /\ ~Cue(sum_words)
              /\ Cue(list_words)
              => ResultTemplate \in CategoryTemplates.list
        /\ result.explanation.text \in GenericExplanations
              <=> ~(Cue(top_words) \/ Cue(count_words) \/ Cue(average_words)
                    \/ Cue(sum_words) \/ Cue(list_words))
        /\ Cardinality({ c \in DOMAIN CategoryTemplates :
                           ResultTemplate \in CategoryTemplates[c] }) <= 1

\* a question with a superlative cue and a count cue got a superlative template
C11_Witness ==
    /\ pc = "pattern_returned"
    /\ Cue(top_words) /\ Cue(count_words)
    /\ ResultTemplate \in CategoryTemplates.top
    /\ ResultTemplate \notin CategoryTemplates.count

\* the endpoint answered the request with a QueryResponse
Answered == pc = "done" /\ response.status_code = 200

\* C12: in every result of process_query and in every QueryResponse, on the model path
\* and on the deterministic path, confidence is an integer from 0 to 100 and the
\* complexity is one of Easy, Medium, Advanced.
C12_BoundedDiagnostics ==
    /\ Returned => result.confidence \in 0..100
    /\ Answered =>
          /\ response.confidence \in 0..100
          /\ response.query_complexity \in { "Easy", "Medium", "Advanced" }

\* a model-path result of a confidence under 85 was answered as an Advanced query
C12_Witness ==
    /\ Answered
    /\ response.generation_method = "llm"
    /\ result.confidence \in 0..84
    /\ response.query_complexity = "Advanced"

\* C13: the QueryResponse of a model-path result reports the generator's score
\* shifted into 85..95, and the QueryResponse of a deterministic result reports the
\* score _calculate_pattern_confidence computed (50, 65 or 75), unshifted.
C13_DeterministicUnshifted ==
    Answered =>
        /\ response.generation_method = "llm" =>
              /\ response.confidence \in 85..95
              /\ response.confidence = enhanced_confidence(result.confidence)
        /\ response.generation_method = "fallback" =>
              /\ response.confidence = result.confidence
              /\ response.confidence \in { 50, 65, 75 }

\* request r holds what its last call of execute_query returned or raised
ExecuteReturned(r) ==
    /\ calls[r].pc \in { "handler", "responding" }
    /\ calls[r].op = "execute_query"
    /\ calls[r].last # Nil

\* C14: execute_query never raises; every error of the store, a failed connect
\* included, is returned as {error}, and what it returns has exactly one arm:
\* columns, data and row_count, or error.
C14_ExecuteNeverRaises ==
    \A r \in Requests :
        ExecuteReturned(r) =>
            /\ ~Raised(calls[r].last)
            /\ DOMAIN calls[r].last \in { { "error" }, { "columns", "data", "row_count" } }

\* execute_query returned the error arm for a connect() that raised before any
\* connection existed
C14_Witness ==
    \E r \in Requests :
        /\ ExecuteReturned(r)
        /\ calls[r].last = [ error |-> "sqlite3.OperationalError" ]
        /\ connections = << >>

\* no operation of the introspector is between its connect() and its return
NoOperationRunning == \A r \in Requests : calls[r].pc \notin { "connect", "body", "finally" }

\* C17: every connection an operation of the introspector opened is closed when the
\* operation returns or raises, and after any sequence of operations no connection
\* is open.
C17_ConnectionsClosed ==
    /\ NoOperationRunning => \A i \in DOMAIN connections : ~connections[i].open
    /\ \A i \in DOMAIN connections :
          ~connections[i].open => connections[i].opened_by \in connections[i].closed_by

\* get_schema_details or get_llm_context raised after an error of the store, on the
\* second connection at least, and nothing is left open
C17_Witness ==
    /\ Len(connections) >= 2
    /\ \A i \in DOMAIN connections : ~connections[i].open
    /\ \E r \in Requests :
          /\ calls[r].pc = "handler"
          /\ calls[r].op # "execute_query"
          /\ Raised(calls[r].last)

\* request r is accepted and not answered yet
InFlight(r) == calls[r].pc # "idle"

\* C18: with two requests in flight on the one introspector, no request runs its
\* query on, closes or overwrites a connection that another request in flight
\* opened, and every connection a request opened is closed by that request.
C18_RequestLocalConnections ==
    /\ [](\A i \in DOMAIN connections :
             connections[i].closed_by \subseteq { connections[i].opened_by }
             \/ connections[i].opened_by \in connections[i].closed_by)
    /\ [][\A i \in DOMAIN connections :
             LET old == connections[i]
                 new == connections'[i]
                 touched_by == (new.used_by \ old.used_by)
                               \cup (new.closed_by \ old.closed_by)
                               \cup (new.overwritten_by \ old.overwritten_by)
             IN  InFlight(old.opened_by) => touched_by \subseteq { old.opened_by }]_vars


\* the request ended on the error arm of execute_query
ExecutionFailed == pc = "done" /\ "error" \in DOMAIN execution_result

\* what a caller can tell a failure by: the status and the fixed text of the detail
Kind(r) == << r.status_code, r.detail.text >>

\* C15: a failure of the execution is reported with a status and a kind of error that
\* differ from those of a failure inside the processing of the request.
C15_FailuresDistinguishable ==
    ExecutionFailed =>
        /\ response.status_code # 200
        /\ \A e \in { Raise("Exception"), Raise("KeyError"), Raise("ValueError") } :
              Kind(response) # Kind(processing_error(e))

\* C16: once execute_query returned the error arm the request ends with an error:
\* no generator runs again, nothing is executed again, and the only SQL the request
\* executed is the failed one.
C16_NoRetryAfterExecutionError ==
    /\ [](pc \in { "respond", "done" } /\ "error" \in DOMAIN execution_result =>
             /\ executed = << result.sql_query >>
             /\ llm_calls <= 1 /\ det_calls <= 1
             /\ pc = "done" => response.status_code # 200)
    /\ [][pc = "respond" /\ "error" \in DOMAIN execution_result =>
             /\ pc' = "done"
             /\ llm_calls' = llm_calls
             /\ det_calls' = det_calls
             /\ executed' = executed]_vars

\* SQL of the model failed in the store and the request ended with an error, the
\* deterministic generator never called
C16_Witness ==
    /\ ExecutionFailed
    /\ result.generation_method = "llm"
    /\ det_calls = 0
    /\ executed = << R_ghosts >>
    /\ response.status_code = 500

\* the places of step s in the steps of the request
Places(s) == { i \in DOMAIN steps : steps[i] = s }

\* every s of the request ran before every t of it
Precedes(s, t) == \A i \in Places(s), j \in Places(t) : i < j

\* C19: the steps of a request run in the order format context, generate, validate,
\* fallback, diagnose, execute: execute_query runs exactly once, after the explanation,
\* the confidence and the complexity of the request were computed, and on the model
\* path the validation precedes the explanation and the confidence.
C19_StrictStepOrder ==
    pc = "done" =>
        /\ Cardinality(Places("execute")) = 1
        /\ Precedes("format_context", "generate")
        /\ Precedes("generate", "validate")
        /\ Precedes("validate", "fallback")
        /\ Precedes("validate", "explanation") /\ Precedes("validate", "confidence")
        /\ Precedes("fallback", "explanation") /\ Precedes("fallback", "confidence")
        /\ \A d \in { "explanation", "confidence", "complexity" } :
              /\ Places(d) # {}
              /\ Precedes(d, "execute")

\* C20: generate_sql_with_llm never raises, and an error of the model service or an
\* empty response of it is returned as success = False with an error string.
C20_GenerateFailuresReported ==
    model_response # Nil /\ llm_result # Nil =>
        /\ ~Raised(llm_result)
        /\ DOMAIN llm_result = { "sql", "success", "error" }
        /\ (Raised(model_response) \/ strip(model_response.text) = << >>) =>
              /\ llm_result.success = FALSE
              /\ llm_result.error # "None"

\* validate_sql_syntax(candidate) returned
ValidateReturned == pc = "validate_returned"

\* C21: for "DROP TABLE customers" the validator returns False and the reason it
\* gives names the dangerous keyword.
C21_DropTableReasonNamesKeyword ==
    ValidateReturned /\ candidate = F_drop_table \o F_customers =>
        /\ verdict = FALSE
        /\ validate_sql_syntax_warning(candidate) =
              Fmt("SQL validation failed: Contains dangerous keyword '{keyword}'",
                  << "d","r","o","p" >>)

\* the lower-cased SQL of the returned result holds the text
Clause(text) == In(text, lower(result.sql_query))

\* the tables after FROM and after JOIN in the SQL of the returned result
FromTables == findall(KW_FROM, upper(result.sql_query))
JoinTables == findall(KW_JOIN, upper(result.sql_query))

\* C22: for a question with a superlative cue that names the customer and the
\* spending, on a catalog with customers and orders, the deterministic SQL joins
\* customers with orders, groups by the customer, orders by the summed order total
\* descending and limits to 10, and its complexity is Medium or Advanced.
C22_TopCustomersBySpending ==
    PatternReturned /\ Cue(top_words) /\ Cue(<< w_customer >>) /\ Cue(<< w_spend >>)
        /\ { w_customers, w_orders } \subseteq Elems(table_names) =>
        /\ ~Raised(result)
        /\ FromTables = << upper(w_customers) >> /\ JoinTables = << upper(w_orders) >>
        /\ Clause(<< "g","r","o","u","p"," ","b","y"," ","c",".","c","u","s","t","o","m","e","r","_",
                 "i","d" >>)
        /\ Clause(<< "s","u","m","(","o",".","t","o","t","a","l","_","a","m","o","u","n","t",")"," ",
                 "a","s"," ","t","o","t","a","l","_","s","p","e","n","t" >>)
        /\ Clause(<< "o","r","d","e","r"," ","b","y"," ","t","o","t","a","l","_","s","p","e","n","t",
                 " ","d","e","s","c" >>)
        /\ Clause(<< "l","i","m","i","t"," ","1","0" >>)
        /\ determine_query_complexity(result.sql_query) \in { "Medium", "Advanced" }

\* "top customers by spending" on the catalog customers, orders gave the joined query,
\* a Medium one
C22_Witness ==
    /\ pc = "pattern_returned"
    /\ question = Join(<< P_top, P_customers_spending >>)
    /\ table_names = << w_customers, w_orders >>
    /\ result.sql_query = SQL_top_customers_spend
    /\ determine_query_complexity(result.sql_query) = "Medium"

\* C23: for a question with a count cue and no superlative cue that names the
\* customer, on a catalog with customers, the deterministic SQL is a COUNT(*) query
\* over customers and its complexity is Easy.
C23_CountCustomers ==
    PatternReturned /\ Cue(count_words) /\ ~Cue(top_words) /\ Cue(<< w_customer >>)
        /\ w_customers \in Elems(table_names) =>
        /\ ~Raised(result)
        /\ startswith(lower(result.sql_query), << "s","e","l","e","c","t"," ","c","o","u","n","t","(","*",")"," " >>)
        /\ FromTables = << upper(w_customers) >> /\ JoinTables = << >>
        /\ determine_query_complexity(result.sql_query) = "Easy"

\* "How many customers" counted the customers
C23_Witness ==
    /\ pc = "pattern_returned"
    /\ question = Join(<< P_how_many, P_customers >>)
    /\ w_customers \in Elems(table_names)
    /\ result.sql_query = SQL_count_customers

\* C29: for a question with a count cue and no superlative cue that names none of
\* customer, order, product, the deterministic SQL is a COUNT(*) query over the first
\* table of the catalog.
C29_CountDefaultsToFirstTable ==
    PatternReturned /\ Cue(count_words) /\ ~Cue(top_words)
        /\ ~Cue(<< w_customer, w_order, w_product >>) /\ table_names # << >> =>
        /\ ~Raised(result)
        /\ startswith(lower(result.sql_query), << "s","e","l","e","c","t"," ","c","o","u","n","t","(","*",")"," " >>)
        /\ FromTables = << upper(table_names[1]) >> /\ JoinTables = << >>

\* the features the complexity is summed of: the texts of a feature, any of which
\* shows it, and its weight
FeatureWeights ==
    << << { kw_join }, 2 >>,
       << { w_group_by }, 1 >>,
       << { w_having }, 2 >>,
       << { w_subquery, w_paren_select }, 3 >>,
       << { w_union, w_intersect }, 2 >>,
       << { w_case_when }, 1 >>,
       << { w_window, w_over }, 3 >> >>

\* the sum of the weights of the features the lower-cased SQL shows, each once
RECURSIVE FeatureSum(_, _)
FeatureSum(sql_lower, fw) ==
    IF fw = << >> THEN 0
    ELSE (IF \E text \in fw[1][1] : In(text, sql_lower) THEN fw[1][2] ELSE 0)
         + FeatureSum(sql_lower, Tail(fw))

\* C28: determine_query_complexity returns Advanced when the sum of the feature
\* weights (join 2, group by 1, having 2, nested select 3, union or intersect 2, case
\* when 1, window function 3, each feature once) is at least 6, Medium when it is at
\* least 3, and Easy otherwise.
C28_ComplexityBySum ==
    pc = "complexity_returned" =>
        LET sum == FeatureSum(lower(argument), FeatureWeights)
        IN  returned = IF sum >= 6 THEN "Advanced"
                       ELSE IF sum >= 3 THEN "Medium"
                       ELSE "Easy"

\* a query with UNION, INTERSECT and a join scores 2 + 2 and is Medium
C28_Witness ==
    /\ pc = "complexity_returned"
    /\ argument = X_head \o X_union \o X_intersect \o X_join
    /\ returned = "Medium"

\* C26: on the model path the confidence is clamp(85 - 20 [the SQL does not start with
\* select] + t + 2 k, 0, 100), where t is -30, 5 or 10 as none, one or several names of
\* catalog tables occur in the SQL and k counts the clause keywords where, group by,
\* order by, join, limit that occur in it.
C26_ModelConfidenceByCatalog ==
    Returned /\ result.generation_method = "llm" =>
        LET sql_lower == lower(result.sql_query)
            penalty == IF startswith(sql_lower, kw_select) THEN 0 ELSE 20
            names == { n \in Elems(table_names) : In(lower(n), sql_lower) }
            t == IF Cardinality(names) = 0 THEN 0 - 30
                 ELSE IF Cardinality(names) = 1 THEN 5
                 ELSE 10
            k == Cardinality({ i \in 1..Len(good_keywords) : In(good_keywords[i], sql_lower) })
        IN  result.confidence = clamp(85 - penalty + t + 2 * k)

\* the rule category a lower-cased question is dispatched to
Category(question_lower) ==
    IF AnyIn(top_words, question_lower) THEN "top"
    ELSE IF AnyIn(count_words, question_lower) THEN "count"
    ELSE IF AnyIn(average_words, question_lower) THEN "average"
    ELSE IF AnyIn(sum_words, question_lower) THEN "sum"
    ELSE IF AnyIn(list_words, question_lower) THEN "list"
    ELSE "generic"

\* C27: the confidence of a deterministic result is a function of the category of the
\* question: every question of the same category gets the same score, the categories
\* count, average and sum get the highest score and the generic category the lowest.
C27_ConfidenceByCategory ==
    PatternReturned /\ ~Raised(result) =>
        LET category == Category(lower(question))
            score(q) == _calculate_pattern_confidence(lower(q))
        IN  /\ \A q \in Questions :
                  Category(lower(q)) = category => score(q) = result.confidence
            /\ category \in { "count", "average", "sum" } =>
                  \A q \in Questions : score(q) <= result.confidence
            /\ category = "generic" =>
                  \A q \in Questions : score(q) >= result.confidence

ContainsFrom(s) == In(kw_from, lower(s))
Balanced(s) == count(s, "(") = count(s, ")")
NoMutatingKeyword(s) == ~AnyIn(dangerous_keywords, lower(s))

\* the text of the reason validate_sql_syntax gave for s
Reason(s) ==
    IF validate_sql_syntax_warning(s) = Nil THEN "none"
    ELSE validate_sql_syntax_warning(s).text

\* the text of the reason of a rejection by the first rule that fails; first: the first
\* rule holds
FirstFailure(s, first) ==
    IF s = << >> THEN "none"
    ELSE IF ~first THEN "SQL validation failed: Query does not start with SELECT"
    ELSE IF ~ContainsFrom(s) THEN "SQL validation failed: Query does not contain FROM clause"
    ELSE IF ~Balanced(s) THEN "SQL validation failed: Unbalanced parentheses"
    ELSE "SQL validation failed: Contains dangerous keyword '{keyword}'"

\* C25: the validator accepts a str exactly when it (1) is non-empty and begins with
\* SELECT in any case, (2) contains FROM, (3) has as many '(' as ')' and (4) holds no
\* mutating keyword in any case; the rules are tested in this order and the first that
\* fails gives the rejection.
C25_FourRulesInOrder ==
    ValidateReturned =>
        LET first == candidate # << >> /\ startswith(lower(candidate), kw_select)
        IN  /\ verdict = (first /\ ContainsFrom(candidate) /\ Balanced(candidate)
                            /\ NoMutatingKeyword(candidate))
            /\ ~verdict => Reason(candidate) = FirstFailure(candidate, first)

\* C25, with the first rule as the code tests it: the str, lower-cased and stripped of
\* the white space around it, begins with select.
C25_FourRulesInOrderStripped ==
    ValidateReturned =>
        LET first == candidate # << >> /\ startswith(strip(lower(candidate)), kw_select)
        IN  /\ verdict = (first /\ ContainsFrom(candidate) /\ Balanced(candidate)
                            /\ NoMutatingKeyword(candidate))
            /\ ~verdict => Reason(candidate) = FirstFailure(candidate, first)

\* a SELECT behind a space was accepted
C25_Witness ==
    /\ ValidateReturned
    /\ candidate = F_space \o F_select_from \o F_customers
    /\ verdict = TRUE

\* C24: for a response made of a fenced SELECT statement with prose around it, the
\* cleaned output is the bare SELECT statement, without fence and without prose.
C24_CleanedIsBareSelect ==
    pc = "clean_returned" =>
        /\ returned = argument.statement
        /\ ~In(fence, returned)

====
